---- MODULE Spec2Model ----
(***************************************************************************)
(* clawdwatch: check execution and alert state-machine engine.             *)
(*                                                                         *)
(*   SpecT    the pure transition function computeTransition, applied to   *)
(*            chains of results from arbitrary prior Check States          *)
(*   SpecRun  one runCheck call (retry loop around executeCheck) for       *)
(*            checks drawn from bounded configurations                     *)
(*   Spec     ticks of runMonitoringChecks over the configured targets     *)
(*                                                                         *)
(* JavaScript strings are sequences of one-character strings, so that      *)
(* String.prototype.includes and template literals are computed.  A        *)
(* nullable value is Null (<<>>) or Some(v) (<<v>>).                       *)
(***************************************************************************)
EXTENDS Integers, Sequences, FiniteSets, TLC

(* ------------------------------ bounds --------------------------------- *)
MaxCF == 3
MaxThreshold == 3
MaxCalls == 4
MaxRetry == 2
MaxTicks == 2
MaxAssertions == 2
MaxChunks == 3
MaxRecalls == 2
MaxEntries == 2

(* --------------------------- nullable values --------------------------- *)
Null == <<>>
Some(v) == <<v>>
Coalesce(x, d) == IF x = Null THEN d ELSE x[1]

(* ------------------------------- strings ------------------------------- *)
ABORT == <<"a","b","o","r","t">>
MSG_ABORTED == <<"T","h","e"," ","o","p","e","r","a","t","i","o","n"," ","w","a","s"," ","a","b","o","r","t","e","d">>
MSG_DNS == <<"D","N","S"," ","r","e","s","o","l","u","t","i","o","n"," ","f","a","i","l","e","d">>
MSG_CONN_ABORT == <<"S","o","f","t","w","a","r","e"," ","c","a","u","s","e","d"," ","c","o","n","n","e","c","t","i","o","n"," ","a","b","o","r","t">>
TIMEOUT_AFTER == <<"T","i","m","e","o","u","t"," ","a","f","t","e","r"," ">>
MS == <<"m","s">>
EXPECTED_STATUS == <<"E","x","p","e","c","t","e","d"," ","s","t","a","t","u","s"," ">>
GOT == <<","," ","g","o","t"," ">>
EXPECTED_STATUS_NOT == <<"E","x","p","e","c","t","e","d"," ","s","t","a","t","u","s"," ","n","o","t"," ">>
SEP == <<";"," ">>
BODY_NOT_READ == <<"B","o","d","y"," ","a","s","s","e","r","t","i","o","n"," ","r","e","q","u","i","r","e","s"," ","r","e","s","p","o","n","s","e"," ","b","o","d","y"," ","b","u","t"," ","b","o","d","y"," ","w","a","s"," ","n","o","t"," ","r","e","a","d">>
BODY_PREFIX == <<"B","o","d","y",":"," ">>
HEADER_Q == <<"H","e","a","d","e","r"," ","\"">>
Q_COLON == <<"\"",":"," ">>
EXPECTED_Q == <<"e","x","p","e","c","t","e","d"," ","\"">>
GOT_Q == <<"\"",","," ","g","o","t"," ","\"">>
QUOTE == <<"\"">>
EXPECTED_NOT_Q == <<"e","x","p","e","c","t","e","d"," ","n","o","t"," ","\"">>
EXPECTED_CONTAIN_Q == <<"e","x","p","e","c","t","e","d"," ","t","o"," ","c","o","n","t","a","i","n"," ","\"">>
EXPECTED_NOT_CONTAIN_Q == <<"e","x","p","e","c","t","e","d"," ","n","o","t"," ","t","o"," ","c","o","n","t","a","i","n"," ","\"">>
RESPONSE_TIME == <<"R","e","s","p","o","n","s","e"," ","t","i","m","e"," ">>
MS_GE == <<"m","s"," ",">","="," ">>
BODY_OK == <<"s","t","a","t","u","s",":"," ","o","k">>
BODY_ERROR == <<"s","t","a","t","u","s",":"," ","e","r","r","o","r">>
OK == <<"o","k">>
MSG_STREAM == <<"N","e","t","w","o","r","k"," ","c","o","n","n","e","c","t","i","o","n"," ","l","o","s","t">>
EXPECTED_MATCH == <<"e","x","p","e","c","t","e","d"," ","t","o"," ","m","a","t","c","h"," ","/">>
SLASH == <<"/">>
DIGITS == <<"0","1","2","3","4","5","6","7","8","9">>

\* String.prototype.includes
Includes(s, sub) ==
  \E i \in 0..(Len(s) - Len(sub)) : SubSeq(s, i + 1, i + Len(sub)) = sub

\* `${n}` for a non-negative integer n
RECURSIVE NumToString(_)
NumToString(n) ==
  IF n < 10 THEN <<DIGITS[n + 1]>>
  ELSE NumToString(n \div 10) \o <<DIGITS[(n % 10) + 1]>>

(* ----------------------------- Check State ----------------------------- *)
Statuses == {"unknown", "healthy", "degraded", "unhealthy"}
NoAlert == "null"

createEmptyCheckState ==
  [status |-> "unknown", consecutiveFailures |-> 0, lastCheck |-> Null,
   lastSuccess |-> Null, lastError |-> Null, responseTimeMs |-> Null,
   history |-> Null]

\* computeTransition with the threshold compared by > instead of >=
computeTransition_gt(state, result, threshold, now) ==
  LET updated == [state EXCEPT !.history = Some(Coalesce(state.history, <<>>)),
                               !.lastCheck = Some(now),
                               !.responseTimeMs = Some(result.responseTimeMs)]
  IN IF result.success
     THEN [newState |-> [updated EXCEPT !.status = "healthy",
                                        !.consecutiveFailures = 0,
                                        !.lastSuccess = Some(now),
                                        !.lastError = Null],
           alertType |-> IF state.status = "unhealthy" THEN "recovery" ELSE NoAlert]
     ELSE LET failed == [updated EXCEPT
                           !.consecutiveFailures = state.consecutiveFailures + 1,
                           !.lastError = result.error]
          IN IF failed.consecutiveFailures > threshold
             THEN [newState |-> [failed EXCEPT !.status = "unhealthy"],
                   alertType |-> IF state.status = "unhealthy" THEN NoAlert ELSE "failure"]
             ELSE [newState |-> [failed EXCEPT !.status = "degraded"],
                   alertType |-> NoAlert]

\* computeTransition that reads the status for wasUnhealthy after it has
\* been overwritten with healthy
computeTransition_lateRead(state, result, threshold, now) ==
  LET updated == [state EXCEPT !.history = Some(Coalesce(state.history, <<>>)),
                               !.lastCheck = Some(now),
                               !.responseTimeMs = Some(result.responseTimeMs)]
  IN IF result.success
     THEN LET healthy == [updated EXCEPT !.status = "healthy",
                                         !.consecutiveFailures = 0,
                                         !.lastSuccess = Some(now),
                                         !.lastError = Null]
          IN [newState |-> healthy,
              alertType |-> IF healthy.status = "unhealthy" THEN "recovery" ELSE NoAlert]
     ELSE LET failed == [updated EXCEPT
                           !.consecutiveFailures = state.consecutiveFailures + 1,
                           !.lastError = result.error]
          IN IF failed.consecutiveFailures >= threshold
             THEN [newState |-> [failed EXCEPT !.status = "unhealthy"],
                   alertType |-> IF state.status = "unhealthy" THEN NoAlert ELSE "failure"]
             ELSE [newState |-> [failed EXCEPT !.status = "degraded"],
                   alertType |-> NoAlert]

\* computeTransition that reaches the threshold one failure early
computeTransition_early(state, result, threshold, now) ==
  LET updated == [state EXCEPT !.history = Some(Coalesce(state.history, <<>>)),
                               !.lastCheck = Some(now),
                               !.responseTimeMs = Some(result.responseTimeMs)]
  IN IF result.success
     THEN [newState |-> [updated EXCEPT !.status = "healthy",
                                        !.consecutiveFailures = 0,
                                        !.lastSuccess = Some(now),
                                        !.lastError = Null],
           alertType |-> IF state.status = "unhealthy" THEN "recovery" ELSE NoAlert]
     ELSE LET failed == [updated EXCEPT
                           !.consecutiveFailures = state.consecutiveFailures + 1,
                           !.lastError = result.error]
          IN IF failed.consecutiveFailures + 1 >= threshold
             THEN [newState |-> [failed EXCEPT !.status = "unhealthy"],
                   alertType |-> IF state.status = "unhealthy" THEN NoAlert ELSE "failure"]
             ELSE [newState |-> [failed EXCEPT !.status = "degraded"],
                   alertType |-> NoAlert]

\* computeTransition whose success path keeps the previous lastError
computeTransition_keepError(state, result, threshold, now) ==
  LET updated == [state EXCEPT !.history = Some(Coalesce(state.history, <<>>)),
                               !.lastCheck = Some(now),
                               !.responseTimeMs = Some(result.responseTimeMs)]
  IN IF result.success
     THEN [newState |-> [updated EXCEPT !.status = "healthy",
                                        !.consecutiveFailures = 0,
                                        !.lastSuccess = Some(now)],
           alertType |-> IF state.status = "unhealthy" THEN "recovery" ELSE NoAlert]
     ELSE LET failed == [updated EXCEPT
                           !.consecutiveFailures = state.consecutiveFailures + 1,
                           !.lastError = result.error]
          IN IF failed.consecutiveFailures >= threshold
             THEN [newState |-> [failed EXCEPT !.status = "unhealthy"],
                   alertType |-> IF state.status = "unhealthy" THEN NoAlert ELSE "failure"]
             ELSE [newState |-> [failed EXCEPT !.status = "degraded"],
                   alertType |-> NoAlert]

\* computeTransition whose success path does not reset the failure counter
computeTransition_noReset(state, result, threshold, now) ==
  LET updated == [state EXCEPT !.history = Some(Coalesce(state.history, <<>>)),
                               !.lastCheck = Some(now),
                               !.responseTimeMs = Some(result.responseTimeMs)]
  IN IF result.success
     THEN [newState |-> [updated EXCEPT !.status = "healthy",
                                        !.lastSuccess = Some(now),
                                        !.lastError = Null],
           alertType |-> IF state.status = "unhealthy" THEN "recovery" ELSE NoAlert]
     ELSE LET failed == [updated EXCEPT
                           !.consecutiveFailures = state.consecutiveFailures + 1,
                           !.lastError = result.error]
          IN IF failed.consecutiveFailures >= threshold
             THEN [newState |-> [failed EXCEPT !.status = "unhealthy"],
                   alertType |-> IF state.status = "unhealthy" THEN NoAlert ELSE "failure"]
             ELSE [newState |-> [failed EXCEPT !.status = "degraded"],
                   alertType |-> NoAlert]

\* computeTransition(state, result, threshold); now is the clock it reads
computeTransition(state, result, threshold, now) ==
  LET updated == [state EXCEPT !.history = Some(Coalesce(state.history, <<>>)),
                               !.lastCheck = Some(now),
                               !.responseTimeMs = Some(result.responseTimeMs)]
  IN IF result.success
     THEN LET wasUnhealthy == state.status = "unhealthy"
          IN [newState |-> [updated EXCEPT !.status = "healthy",
                                           !.consecutiveFailures = 0,
                                           !.lastSuccess = Some(now),
                                           !.lastError = Null],
              alertType |-> IF wasUnhealthy THEN "recovery" ELSE NoAlert]
     ELSE LET failed == [updated EXCEPT
                           !.consecutiveFailures = state.consecutiveFailures + 1,
                           !.lastError = result.error]
          IN IF failed.consecutiveFailures >= threshold
             THEN LET wasAlreadyUnhealthy == state.status = "unhealthy"
                  IN [newState |-> [failed EXCEPT !.status = "unhealthy"],
                      alertType |-> IF wasAlreadyUnhealthy THEN NoAlert ELSE "failure"]
             ELSE [newState |-> [failed EXCEPT !.status = "degraded"],
                   alertType |-> NoAlert]

(* ------------------------- Assertion Evaluator ------------------------- *)
\* new RegExp(expected).test(actual) for a pattern made of literal
\* characters: the pattern is searched anywhere in actual
RegExpTest(expected, actual) == Includes(actual, expected)

\* evaluateStringAssertion(operator, actual, expected, missing): Null when the
\* assertion holds, else Some(reason)
evaluateStringAssertion(operator, actual, expected, missing) ==
  CASE operator = "is" ->
         IF actual # expected
         THEN Some(EXPECTED_Q \o expected \o GOT_Q \o actual \o QUOTE) ELSE Null
    [] operator = "isNot" ->
         IF actual = expected
         THEN Some(EXPECTED_NOT_Q \o expected \o QUOTE) ELSE Null
    [] operator = "contains" ->
         IF missing \/ ~Includes(actual, expected)
         THEN Some(EXPECTED_CONTAIN_Q \o expected \o QUOTE) ELSE Null
    [] operator = "notContains" ->
         IF Includes(actual, expected)
         THEN Some(EXPECTED_NOT_CONTAIN_Q \o expected \o QUOTE) ELSE Null
    [] operator = "matches" ->
         IF ~RegExpTest(expected, actual)
         THEN Some(EXPECTED_MATCH \o expected \o SLASH) ELSE Null
    [] OTHER -> Null

\* case 'statusCode': the failure pushed, <<>> or <<reason>>
statusCodeFailure(a, response) ==
  IF a.operator = "is" /\ response.status # a.value
  THEN <<EXPECTED_STATUS \o NumToString(a.value) \o GOT
           \o NumToString(response.status)>>
  ELSE IF a.operator = "isNot" /\ response.status = a.value
  THEN <<EXPECTED_STATUS_NOT \o NumToString(a.value)>>
  ELSE <<>>

\* case 'header': response.headers.get(name) is null for a missing header
headerFailure(a, response) ==
  LET actual == response.headers[a.name]
      failed == evaluateStringAssertion(a.operator, Coalesce(actual, <<>>),
                                        a.value, actual = Null)
  IN IF failed # Null
     THEN <<HEADER_Q \o a.name \o Q_COLON \o failed[1]>> ELSE <<>>

\* a null body read as the empty string
bodyFailure_nullAsEmpty(a, body) ==
  LET failed == evaluateStringAssertion(a.operator, Coalesce(body, <<>>), a.value, FALSE)
  IN IF failed # Null THEN <<BODY_PREFIX \o failed[1]>> ELSE <<>>

\* case 'body'
bodyFailure(a, body) ==
  IF body = Null THEN <<BODY_NOT_READ>>
  ELSE LET failed == evaluateStringAssertion(a.operator, body[1], a.value, FALSE)
       IN IF failed # Null THEN <<BODY_PREFIX \o failed[1]>> ELSE <<>>

\* a boundary that lets an elapsed time equal to the value pass
responseTimeFailure_gt(a, responseTimeMs) ==
  IF a.operator = "lessThan" /\ responseTimeMs > a.value
  THEN <<RESPONSE_TIME \o NumToString(responseTimeMs) \o MS_GE
           \o NumToString(a.value) \o MS>>
  ELSE <<>>

\* case 'responseTime'
responseTimeFailure(a, responseTimeMs) ==
  IF a.operator = "lessThan" /\ responseTimeMs >= a.value
  THEN <<RESPONSE_TIME \o NumToString(responseTimeMs) \o MS_GE
           \o NumToString(a.value) \o MS>>
  ELSE <<>>

\* the failure pushed for one assertion: <<>> or <<reason>>
AssertionFailure(a, response, responseTimeMs, body) ==
  CASE a.type = "statusCode" -> statusCodeFailure(a, response)
    [] a.type = "header" -> headerFailure(a, response)
    [] a.type = "body" -> bodyFailure(a, body)
    [] a.type = "responseTime" -> responseTimeFailure(a, responseTimeMs)
    [] OTHER -> <<>>

\* a loop that stops at the first violated assertion
RECURSIVE evaluateAssertions_firstOnly(_, _, _, _)
evaluateAssertions_firstOnly(assertions, response, responseTimeMs, body) ==
  IF assertions = <<>> THEN <<>>
  ELSE LET f == AssertionFailure(Head(assertions), response, responseTimeMs, body)
       IN IF f # <<>> THEN f
          ELSE evaluateAssertions_firstOnly(Tail(assertions), response,
                                            responseTimeMs, body)

\* evaluateAssertions(assertions, response, responseTimeMs, body): the list
\* of failure messages, in assertion order
RECURSIVE evaluateAssertions(_, _, _, _)
evaluateAssertions(assertions, response, responseTimeMs, body) ==
  IF assertions = <<>> THEN <<>>
  ELSE AssertionFailure(Head(assertions), response, responseTimeMs, body)
         \o evaluateAssertions(Tail(assertions), response, responseTimeMs, body)

\* Array.prototype.join('; ')
RECURSIVE Join(_)
Join(strs) ==
  IF strs = <<>> THEN <<>>
  ELSE IF Len(strs) = 1 THEN strs[1]
  ELSE strs[1] \o SEP \o Join(Tail(strs))

(* ---------------------------- Probe Executor --------------------------- *)
\* const needsBody = check.assertions.some((a) => a.type === 'body')
needsBody(check) == \E i \in 1..Len(check.assertions) : check.assertions[i].type = "body"

DefaultAssertions == <<[type |-> "statusCode", operator |-> "is", value |-> 200]>>

\* a CheckResult whose success looks at the status code alone
ResponseResult_statusOnly(check, response, responseTimeMs, body) ==
  LET assertions == IF Len(check.assertions) > 0 THEN check.assertions
                    ELSE DefaultAssertions
      failures == evaluateAssertions(assertions, response, responseTimeMs, body)
  IN [id |-> check.id,
      success |-> response.status = 200,
      statusCode |-> Some(response.status),
      responseTimeMs |-> responseTimeMs,
      error |-> IF Len(failures) > 0 THEN Some(Join(failures)) ELSE Null]

\* the CheckResult executeCheck returns once the response (and body) is in
ResponseResult(check, response, responseTimeMs, body) ==
  LET assertions == IF Len(check.assertions) > 0 THEN check.assertions
                    ELSE DefaultAssertions
      failures == evaluateAssertions(assertions, response, responseTimeMs, body)
  IN [id |-> check.id,
      success |-> Len(failures) = 0,
      statusCode |-> Some(response.status),
      responseTimeMs |-> responseTimeMs,
      error |-> IF Len(failures) > 0 THEN Some(Join(failures)) ELSE Null]

\* `Timeout after ${check.timeout_ms}ms`
TimeoutMessage(timeout_ms) == TIMEOUT_AFTER \o NumToString(timeout_ms) \o MS

\* the CheckResult built by executeCheck's catch block for a thrown Error
CatchResult(check, message, responseTimeMs) ==
  LET isTimeout == Includes(message, ABORT)
  IN [id |-> check.id,
      success |-> FALSE,
      statusCode |-> Null,
      responseTimeMs |-> responseTimeMs,
      error |-> Some(IF isTimeout THEN TimeoutMessage(check.timeout_ms) ELSE message)]

\* the retry loop's condition with off-by-one bound
RetryAgain_le(attempt, check, result) == attempt <= check.retry_count /\ ~result.success

\* the retry loop's condition: attempt < check.retry_count && !result.success
RetryAgain(attempt, check, result) == attempt < check.retry_count /\ ~result.success

\* a retry loop that keeps the result of the first attempt
AssignResult_first(old, new) == IF old = Null THEN Some(new) ELSE old

\* result = await executeCheck(...)
AssignResult(old, new) == Some(new)

(* --------------------- SpecT: chains of transitions -------------------- *)
VARIABLES tBase, tThreshold, tState, tTrace,
          rCheck, rPc, rAttempt, rResult, rTimer, rElapsed, rResponse, rRt,
          rStarted, rLog,
          dbChecks, edited, stored, incidents,
          oPc, oChecks, oIdx, oState, oClock, oMaint,
          fOnAlert, fOps, fRead, fOutcome, fCause, fPuts,
          cPc, cIdx, cState, cAlerts,
          aAssertions, aResponse, aRt, aBody, aFailures,
          bStream, bChunks, bTotalSize, bPc,
          lRaw, lEntry, lOut,
          pTable, pBefore, pRequest, pResponse,
          sLog

tvars == <<tBase, tThreshold, tState, tTrace>>
rvars == <<rCheck, rPc, rAttempt, rResult, rTimer, rElapsed, rResponse, rRt,
           rStarted, rLog>>
ovars == <<dbChecks, edited, stored, incidents,
           oPc, oChecks, oIdx, oState, oClock, oMaint>>
\* what a tick read and did for each target, and how it ended
fvars == <<fOnAlert, fOps, fRead, fOutcome, fCause, fPuts>>
\* the invocations of runChecks that overlap in time, and the alerts they sent
cvars == <<cPc, cIdx, cState, cAlerts>>
\* one call of evaluateAssertions: its arguments and what it returned
avars == <<aAssertions, aResponse, aRt, aBody, aFailures>>
\* one call of readBodyCapped: the chunks still to come and those captured
bvars == <<bStream, bChunks, bTotalSize, bPc>>
\* one persisted check entry, as parsed, as normalized, and after a probe
lvars == <<lRaw, lEntry, lOut>>
\* the checks table and one PUT /api/config request against it
pvars == <<pTable, pBefore, pRequest, pResponse>>
\* the side effects of the current tick, in the order they happened
svars == <<sLog>>
yvars == <<avars, bvars, lvars, pvars, svars>>
xvars == <<fvars, cvars, yvars>>
vars == <<tvars, rvars, ovars, xvars>>

\* a check as parseCheckRow yields it (the fields the engine reads)
MakeCheck(id, assertions, retry_count, timeout_ms, failure_threshold) ==
  [id |-> id, assertions |-> assertions, retry_count |-> retry_count,
   timeout_ms |-> timeout_ms, failure_threshold |-> failure_threshold,
   enabled |-> TRUE]

StatusIs200 == [type |-> "statusCode", operator |-> "is", value |-> 200]
BodyContainsOk == [type |-> "body", operator |-> "contains", value |-> OK]

Targets == {"a", "b"}

\* createEmptyState(): no entry for any check, lastRun null
createEmptyState == [checks |-> [id \in Targets |-> Null], lastRun |-> Null]

\* the checks table after setup: "a" retries once and uses the default
\* assertion, "b" asserts on the body without retry
InitialChecks ==
  [id \in Targets |->
     IF id = "a" THEN MakeCheck("a", <<>>, 1, 3, 2)
     ELSE MakeCheck("b", <<BodyContainsOk>>, 0, 12, 1)]

\* what a tick has done for one target, before the loop reaches it
NoOps ==
  [maint |-> "unvisited", probed |-> FALSE, metric |-> FALSE, row |-> FALSE,
   computed |-> Null, alertType |-> NoAlert, incident |-> "none",
   dispatched |-> FALSE, alertThrew |-> FALSE]

\* the invocations of runChecks that may overlap
TickIds == {"t1", "t2"}

\* no tick has run: empty bucket, no incident
AIdle ==
  /\ aAssertions = <<>> /\ aResponse = Null /\ aRt = 0 /\ aBody = Null
  /\ aFailures = Null
BIdle ==
  /\ bStream = [hasBody |-> FALSE, chunks |-> <<>>]
  /\ bChunks = <<>> /\ bTotalSize = 0 /\ bPc = "idle"
LIdle == lRaw = Null /\ lEntry = Null /\ lOut = Null
PIdle == pTable = Null /\ pBefore = Null /\ pRequest = Null /\ pResponse = Null
SIdle == sLog = <<>>

OrchestratorIdle ==
  /\ cPc = [t \in TickIds |-> "idle"]
  /\ cIdx = [t \in TickIds |-> 0]
  /\ cState = [t \in TickIds |-> createEmptyState]
  /\ cAlerts = {}
  /\ fOps = [id \in Targets |-> NoOps]
  /\ fRead = "none" /\ fOutcome = "none" /\ fCause = "none" /\ fPuts = 0
  /\ dbChecks = InitialChecks
  /\ edited = [id \in Targets |-> FALSE]
  /\ stored = Null
  /\ incidents = [id \in Targets |-> 0]
  /\ oPc = "idle" /\ oChecks = <<>> /\ oIdx = 0
  /\ oState = createEmptyState /\ oClock = 0 /\ oMaint = "none"

\* no runCheck call is in progress
RunnerIdle ==
  /\ rCheck = MakeCheck("a", <<>>, 0, 3, 1)
  /\ rPc = "idle" /\ rAttempt = 0 /\ rResult = Null /\ rTimer = FALSE
  /\ rElapsed = FALSE /\ rResponse = Null /\ rRt = 0 /\ rStarted = 0
  /\ rLog = <<>>

\* the runCheck call is over and its locals are gone
RunnerReset ==
  /\ rCheck' = MakeCheck("a", <<>>, 0, 3, 1)
  /\ rPc' = "idle" /\ rAttempt' = 0 /\ rResult' = Null /\ rTimer' = FALSE
  /\ rElapsed' = FALSE /\ rResponse' = Null /\ rRt' = 0 /\ rStarted' = 0
  /\ rLog' = <<>>

\* Check Results handed to computeTransition
SuccessResult ==
  [id |-> "a", success |-> TRUE, statusCode |-> Some(200), responseTimeMs |-> 1,
   error |-> Null]
FailureResults ==
  { [id |-> "a", success |-> FALSE, statusCode |-> Some(503), responseTimeMs |-> 2,
     error |-> Some(EXPECTED_STATUS \o NumToString(200) \o GOT \o NumToString(503))],
    [id |-> "a", success |-> FALSE, statusCode |-> Null, responseTimeMs |-> 2,
     error |-> Some(MSG_DNS)] }
TResults == {SuccessResult} \cup FailureResults

PriorStates ==
  { [createEmptyCheckState EXCEPT !.status = s, !.consecutiveFailures = c,
                                  !.lastError = e, !.history = h] :
      s \in Statuses, c \in 0..MaxCF, e \in {Null, Some(MSG_DNS)},
      h \in {Null, Some(<<>>)} }

InitT ==
  /\ AIdle /\ BIdle /\ LIdle /\ PIdle /\ SIdle
  /\ RunnerIdle
  /\ OrchestratorIdle
  /\ fOnAlert = TRUE
  /\ tBase \in PriorStates
  /\ tThreshold \in 1..MaxThreshold
  /\ tState = tBase
  /\ tTrace = <<>>

Transition ==
  /\ Len(tTrace) < MaxCalls
  /\ \E result \in TResults :
       LET out == computeTransition(tState, result, tThreshold, Len(tTrace) + 1)
       IN /\ tState' = out.newState
          /\ tTrace' = Append(tTrace, [prior |-> tState, result |-> result,
                                       newState |-> out.newState,
                                       alertType |-> out.alertType])
  /\ UNCHANGED <<tBase, tThreshold, rvars, ovars, xvars>>

NextT == Transition
SpecT == InitT /\ [][NextT]_vars

(* ------------------------ SpecRun: one runCheck ------------------------ *)
TimeoutValues == {3, 12}
\* elapsed times measured before the timeout has expired
ResponseTimes == {1}
HeaderNames == {<<"e","t","a","g">>}
Responses == [status : {200, 503}, headers : [HeaderNames -> {Null}]]
Bodies == {BODY_OK, BODY_ERROR}
\* messages of the errors fetch and the body stream reject with; the
\* network seen by ticks fails in one way only
TransportErrors == IF oPc = "running" THEN {MSG_DNS} ELSE {MSG_DNS, MSG_CONN_ABORT}
\* message of the error a fetch rejects with when its signal is aborted
AbortMessages == {MSG_ABORTED}

TranIdle == tBase = createEmptyCheckState /\ tThreshold = 1
            /\ tState = createEmptyCheckState /\ tTrace = <<>>

RunConfigs ==
  { MakeCheck("a", as, r, t, 1) :
      as \in {<<>>, <<StatusIs200, BodyContainsOk>>},
      r \in 0..MaxRetry, t \in TimeoutValues }

\* executeCheck is entered: the timer is armed and the fetch is pending
executeCheckStart ==
  /\ rPc' = "fetch"
  /\ rTimer' = TRUE
  /\ rElapsed' = FALSE
  /\ rResponse' = Null
  /\ rRt' = 0
  /\ rStarted' = rStarted + 1

\* executeCheck returns res to runCheck, which tests its loop condition.
\* elapsed: timeout_ms passed during the attempt; cancelled: the timer ran
\* controller.abort(); thrown: the message of the error caught, if any;
\* response, body: what evaluateAssertions was called with, if it was.
executeCheckReturn(res, elapsed, cancelled, thrown, response, body) ==
  LET attempt == IF rResult = Null THEN 0 ELSE rAttempt + 1
      result == AssignResult(rResult, res)
  IN /\ rLog' = Append(rLog, [result |-> res, elapsed |-> elapsed,
                              cancelled |-> cancelled, thrown |-> thrown,
                              response |-> response, body |-> body])
     /\ rResult' = result
     /\ rAttempt' = attempt
     /\ rPc' = IF RetryAgain(attempt, rCheck, result[1]) THEN "sleep" ELSE "returned"
     /\ rTimer' = FALSE
     /\ rElapsed' = FALSE
     /\ rResponse' = Null
     /\ rRt' = 0
     /\ UNCHANGED <<rCheck, rStarted>>

\* runCheck(check, ...) is called
runCheckCall ==
  /\ rPc = "idle"
  /\ executeCheckStart
  /\ rAttempt' = 0 /\ rResult' = Null /\ rLog' = <<>>
  /\ UNCHANGED rCheck

\* await fetch(...) resolves with a response before the timer fires
FetchResolves ==
  /\ rPc = "fetch"
  /\ \E response \in Responses, rt \in ResponseTimes :
       IF needsBody(rCheck)
       THEN /\ rPc' = "body"
            /\ rTimer' = FALSE
            /\ rResponse' = Some(response)
            /\ rRt' = rt
            /\ UNCHANGED <<rCheck, rAttempt, rResult, rElapsed, rStarted, rLog>>
       ELSE executeCheckReturn(ResponseResult(rCheck, response, rt, Null),
                               FALSE, FALSE, Null, Some(response), Null)

\* await fetch(...) rejects with a transport error before the timer fires
FetchRejects ==
  /\ rPc = "fetch"
  /\ \E message \in TransportErrors, rt \in ResponseTimes :
       executeCheckReturn(CatchResult(rCheck, message, rt), FALSE, FALSE,
                          Some(message), Null, Null)

\* timeout_ms has passed since executeCheck armed its timer: if the timer is
\* still armed its callback aborts the controller and the pending fetch
\* rejects with an abort error; if it was cleared nothing happens
TimeoutElapses ==
  /\ rPc \in {"fetch", "body"}
  /\ ~rElapsed
  /\ IF rTimer
     THEN \E message \in AbortMessages :
            executeCheckReturn(CatchResult(rCheck, message, rCheck.timeout_ms),
                               TRUE, TRUE, Some(message), Null, Null)
     ELSE /\ rElapsed' = TRUE
          /\ UNCHANGED <<rCheck, rPc, rAttempt, rResult, rTimer, rResponse, rRt,
                         rStarted, rLog>>

\* await readBodyCapped(response) returns the body text
BodyRead ==
  /\ rPc = "body"
  /\ \E body \in Bodies :
       executeCheckReturn(ResponseResult(rCheck, rResponse[1], rRt, Some(body)),
                          rElapsed, FALSE, Null, rResponse, Some(body))

\* await readBodyCapped(response) rejects: the stream failed
BodyFails ==
  /\ rPc = "body"
  /\ \E message \in TransportErrors :
       executeCheckReturn(
         CatchResult(rCheck, message, IF rElapsed THEN rCheck.timeout_ms ELSE rRt),
         rElapsed, FALSE, Some(message), Null, Null)

\* await sleep(check.retry_delay_ms) is over: the next attempt starts
SleepDone ==
  /\ rPc = "sleep"
  /\ executeCheckStart
  /\ UNCHANGED <<rCheck, rAttempt, rResult, rLog>>

RunnerStep ==
  \/ FetchResolves \/ FetchRejects \/ TimeoutElapses
  \/ BodyRead \/ BodyFails \/ SleepDone

InitRun ==
  /\ AIdle /\ BIdle /\ LIdle /\ PIdle /\ SIdle
  /\ TranIdle
  /\ OrchestratorIdle
  /\ fOnAlert = TRUE
  /\ rCheck \in RunConfigs
  /\ rPc = "idle" /\ rAttempt = 0 /\ rResult = Null /\ rTimer = FALSE
  /\ rElapsed = FALSE /\ rResponse = Null /\ rRt = 0 /\ rStarted = 0
  /\ rLog = <<>>

NextRun ==
  \/ runCheckCall /\ UNCHANGED <<tvars, xvars, ovars>>
  \/ FetchResolves /\ UNCHANGED <<tvars, xvars, ovars>>
  \/ FetchRejects /\ UNCHANGED <<tvars, xvars, ovars>>
  \/ TimeoutElapses /\ UNCHANGED <<tvars, xvars, ovars>>
  \/ BodyRead /\ UNCHANGED <<tvars, xvars, ovars>>
  \/ BodyFails /\ UNCHANGED <<tvars, xvars, ovars>>
  \/ SleepDone /\ UNCHANGED <<tvars, xvars, ovars>>

SpecRun == InitRun /\ [][NextRun]_vars

(* ---------------------- Spec: ticks of the monitor --------------------- *)
StateFields == {"status", "consecutiveFailures", "lastCheck", "lastSuccess",
                "lastError", "responseTimeMs"}
LegacyFields == {"id", "history"}

\* the values JSON.parse may give a key of a persisted entry: null or a value
RawValues(k) ==
  CASE k = "status" -> {Null, Some("healthy"), Some("unhealthy")}
    [] k = "consecutiveFailures" -> {Null, Some(MaxThreshold)}
    [] k = "lastCheck" -> {Null, Some(1)}
    [] k = "lastSuccess" -> {Null, Some(1)}
    [] k = "lastError" -> {Null, Some(MSG_DNS)}
    [] k = "responseTimeMs" -> {Null, Some(1)}
    [] k = "id" -> {Some("a")}
    [] OTHER -> {Some(<<>>)}

\* the entries of F, each with or without key k
WithKey(F, k) == F \cup {f @@ (k :> v) : f \in F, v \in RawValues(k)}

\* persisted entries: any subset of the eight keys may be present
RawEntries ==
  WithKey(WithKey(WithKey(WithKey(WithKey(WithKey(WithKey(WithKey({<<>>},
    "status"), "consecutiveFailures"), "lastCheck"), "lastSuccess"),
    "lastError"), "responseTimeMs"), "id"), "history")

\* cs.key: undefined for a missing key; undefined and null are both nullish
Get(cs, k) == IF k \in DOMAIN cs THEN cs[k] ELSE Null

\* an entry that keeps whatever keys the persisted object carries
normalizeEntry_spread(cs) ==
  [k \in DOMAIN cs \cup StateFields |->
     CASE k = "status" -> Coalesce(Get(cs, "status"), "unknown")
       [] k = "consecutiveFailures" -> Coalesce(Get(cs, "consecutiveFailures"), 0)
       [] OTHER -> Get(cs, k)]

\* state.checks[id] = { status: cs.status ?? 'unknown', ... } (loadState)
normalizeEntry(cs) ==
  [status |-> Coalesce(Get(cs, "status"), "unknown"),
   consecutiveFailures |-> Coalesce(Get(cs, "consecutiveFailures"), 0),
   lastCheck |-> Get(cs, "lastCheck"),
   lastSuccess |-> Get(cs, "lastSuccess"),
   lastError |-> Get(cs, "lastError"),
   responseTimeMs |-> Get(cs, "responseTimeMs")]

\* the entry as computeTransition reads it: state.history is undefined
\* unless the entry carries one
AsCheckState(e) ==
  [k \in DOMAIN e \cup {"history"} |-> IF k \in DOMAIN e THEN e[k] ELSE Null]

\* JSON.parse(JSON.stringify(cs)): keys whose value is undefined are left
\* out, null stays null
parseStored(cs) ==
  [k \in StateFields \cup (IF cs.history = Null THEN {} ELSE {"history"}) |->
     CASE k = "status" -> Some(cs.status)
       [] k = "consecutiveFailures" -> Some(cs.consecutiveFailures)
       [] OTHER -> cs[k]]

\* a loadState that forgets when the last tick ran
loadState_noLastRun(obj) ==
  IF obj = Null THEN createEmptyState
  ELSE [checks |-> [id \in Targets |->
                      IF obj[1].checks[id] = Null THEN Null
                      ELSE Some(AsCheckState(normalizeEntry(
                                  parseStored(obj[1].checks[id][1]))))],
        lastRun |-> Null]

\* loadState: the object in R2 holds the text of the state last saved; its
\* entries are rebuilt field by field (obj = Null: no object under the key)
loadState(obj) ==
  IF obj = Null THEN createEmptyState
  ELSE [checks |-> [id \in Targets |->
                      IF obj[1].checks[id] = Null THEN Null
                      ELSE Some(AsCheckState(normalizeEntry(
                                  parseStored(obj[1].checks[id][1]))))],
        lastRun |-> obj[1].lastRun]

\* saveState: bucket.put(stateKey, JSON.stringify(state))
saveState(state) == Some(state)

\* loadChecks: the enabled checks, in table order
isEnabled(row) == row.enabled
loadChecks(db) == SelectSeq(<<db["a"], db["b"]>>, isEnabled)

\* isInMaintenance: the active window of a check, if any
MaintenanceWindows == {"none", "skip_checks", "suppress_alerts"}

\* PUT /api/checks/:id with a new failure_threshold (updateCheck); the
\* operator raises thresholds to the values of EditValues, between ticks
EditValues == {3}
EditThreshold ==
  /\ oPc = "idle"
  /\ \E id \in Targets, n \in EditValues :
       /\ n # dbChecks[id].failure_threshold
       /\ dbChecks' = [dbChecks EXCEPT ![id].failure_threshold = n]
       /\ edited' = [edited EXCEPT ![id] = TRUE]
  /\ UNCHANGED <<stored, incidents, oPc, oChecks, oIdx, oState,
                 oClock, oMaint, tvars, xvars, rvars>>

\* runMonitoringChecks is called: loadChecks, loadState, ensureResultsTable
TickStart ==
  /\ oPc = "idle"
  /\ oClock < MaxTicks
  /\ oClock' = oClock + 1
  /\ oChecks' = loadChecks(dbChecks)
  /\ oState' = loadState(stored)
  /\ oIdx' = 1
  /\ oPc' = "target"
  /\ UNCHANGED <<dbChecks, edited, stored, incidents, oMaint,
                 tvars, xvars, rvars>>

\* top of the loop body: the maintenance lookup, then either `continue` or
\* the call of runCheck
TargetBegin ==
  /\ oPc = "target"
  /\ oIdx <= Len(oChecks)
  /\ \E maintenance \in MaintenanceWindows :
       IF maintenance = "skip_checks"
       THEN /\ oIdx' = oIdx + 1
            /\ UNCHANGED <<oPc, oMaint, rvars>>
       ELSE /\ oMaint' = maintenance
            /\ oPc' = "running"
            /\ rCheck' = oChecks[oIdx]
            /\ executeCheckStart
            /\ rAttempt' = 0 /\ rResult' = Null /\ rLog' = <<>>
            /\ UNCHANGED oIdx
  /\ UNCHANGED <<dbChecks, edited, stored, incidents, oChecks, oState,
                 oClock, tvars, xvars>>

\* runCheck has returned: metrics, check_results row, the transition stored
\* in memory, the incident write, the alert dispatch (onAlert is handed the
\* payload unless oMaint is suppress_alerts; it changes no state here)
TargetFinish ==
  /\ oPc = "running"
  /\ rPc = "returned"
  /\ LET check == oChecks[oIdx]
         result == rResult[1]
         checkState == Coalesce(oState.checks[check.id], createEmptyCheckState)
         out == computeTransition(checkState, result, check.failure_threshold, oClock)
     IN /\ oState' = [oState EXCEPT !.checks[check.id] = Some(out.newState)]
        /\ incidents' =
             IF out.alertType = "failure"
             THEN [incidents EXCEPT ![check.id] = @ + 1]
             ELSE IF out.alertType = "recovery"
             THEN [incidents EXCEPT ![check.id] = 0]
             ELSE incidents
  /\ oIdx' = oIdx + 1
  /\ oPc' = "target"
  /\ oMaint' = "none"
  /\ RunnerReset
  /\ UNCHANGED <<dbChecks, edited, stored, oChecks, oClock, tvars, xvars>>

\* a loop that looks for one more element after the last
loopExits_past(i, checks) == i > Len(checks) + 1

\* for (const check of checks): the loop is left after the last element
loopExits(i, checks) == i > Len(checks)

\* after the loop: lastRun is stamped and the state saved
TickEnd ==
  /\ oPc = "target"
  /\ loopExits(oIdx, oChecks)
  /\ stored' = saveState([oState EXCEPT !.lastRun = Some(oClock)])
  /\ oState' = [oState EXCEPT !.lastRun = Some(oClock)]
  /\ oPc' = "idle"
  /\ UNCHANGED <<dbChecks, edited, incidents, oChecks, oIdx, oClock,
                 oMaint, tvars, xvars, rvars>>

\* a step of the runCheck call the tick is awaiting
RunnerStepInTick ==
  /\ oPc = "running"
  /\ RunnerStep
  /\ UNCHANGED <<tvars, xvars, ovars>>

Init ==
  /\ TranIdle /\ RunnerIdle /\ OrchestratorIdle /\ fOnAlert = TRUE
  /\ AIdle /\ BIdle /\ LIdle /\ PIdle /\ SIdle

Next ==
  \/ EditThreshold
  \/ TickStart
  \/ TargetBegin
  \/ RunnerStepInTick
  \/ TargetFinish
  \/ TickEnd

Spec == Init /\ [][Next]_vars

(* ------------------------- properties of ticks ------------------------- *)
\* the Check State and result the awaiting tick is about to fold
TickPrior == Coalesce(oState.checks[oChecks[oIdx].id], createEmptyCheckState)
TickOut == computeTransition(TickPrior, rResult[1], oChecks[oIdx].failure_threshold,
                             oClock)
AboutToFold == oPc = "running" /\ rPc = "returned"

\* C2: whenever a tick folds a failing result into a Check State whose
\* status is unhealthy, computeTransition returns no alert and a state that
\* is still unhealthy.
C2_UnhealthyStaysUnhealthy ==
  (AboutToFold /\ ~rResult[1].success /\ TickPrior.status = "unhealthy") =>
     /\ TickOut.alertType = NoAlert
     /\ TickOut.newState.status = "unhealthy"

\* the Monitoring States that exist: the one in memory and the one in R2
MonitoringStates == {oState} \cup (IF stored = Null THEN {} ELSE {stored[1]})

Attempts == 1..Len(rLog)

\* C7: a runCheck call starts at most retry_count + 1 attempts, starts none
\* after an attempt that succeeded, and has started exactly retry_count + 1
\* when it returns with every attempt failed.
C7_RetryBound ==
  /\ rStarted <= rCheck.retry_count + 1
  /\ \A i \in Attempts : rLog[i].result.success => rStarted = i
  /\ (rPc = "returned" /\ \A i \in Attempts : ~rLog[i].result.success) =>
        rStarted = rCheck.retry_count + 1

C7_Witness ==
  /\ rPc = "returned" /\ rCheck.retry_count = 2 /\ rStarted = 3
  /\ \A i \in Attempts : ~rLog[i].result.success

\* C8: the result runCheck returns is the result of the last attempt it
\* made; it is successful iff some attempt succeeded.
C8_ReturnsLastAttempt ==
  rPc = "returned" =>
     /\ rResult = Some(rLog[Len(rLog)].result)
     /\ rResult[1].success <=> \E i \in Attempts : rLog[i].result.success

C8_Witness ==
  /\ rPc = "returned" /\ Len(rLog) = 2
  /\ ~rLog[1].result.success /\ ~rLog[2].result.success
  /\ rLog[1].result.statusCode = Null
  /\ rLog[2].result.statusCode = Some(503)
  /\ rResult[1].statusCode = Some(503)

\* C9: an attempt during which timeout_ms elapsed before its result was
\* produced was cancelled and its result is the timeout result.
C9_TimeoutAlwaysCancels ==
  \A i \in Attempts :
    rLog[i].elapsed =>
       /\ rLog[i].cancelled
       /\ rLog[i].result.success = FALSE
       /\ rLog[i].result.statusCode = Null
       /\ rLog[i].result.error = Some(TimeoutMessage(rCheck.timeout_ms))

\* C10: an attempt reports the timeout message only if its own timer
\* cancelled it, and an attempt that caught any other error reports that
\* error's message.
C10_TimeoutNeverConflated ==
  \A i \in Attempts :
     /\ rLog[i].result.error = Some(TimeoutMessage(rCheck.timeout_ms))
          => rLog[i].cancelled
     /\ (rLog[i].thrown # Null /\ ~rLog[i].cancelled)
          => rLog[i].result.error = rLog[i].thrown


(* ------------------- properties of computeTransition ------------------- *)
K == Len(tTrace)
Baseline == tBase.consecutiveFailures = 0 /\ tBase.status \in {"unknown", "healthy"}
AllFailed == \A i \in 1..K : ~tTrace[i].result.success
\* some run of n consecutive failing results ends at call i
FailRunEndsAt(i, n) == i >= n /\ \A k \in (i - n + 1)..i : ~tTrace[k].result.success

\* C1: after K >= 1 consecutive failures from a baseline state (unknown or
\* healthy, counter 0) the status is unhealthy iff K >= N and degraded
\* otherwise, and the only call returning a failure alert is the N-th, the
\* one on which consecutiveFailures first equals N.
C1_FailureAlertOnceAtThreshold ==
  (Baseline /\ AllFailed /\ K >= 1) =>
     /\ tState.status = IF K >= tThreshold THEN "unhealthy" ELSE "degraded"
     /\ \A i \in 1..K :
          /\ tTrace[i].newState.consecutiveFailures = i
          /\ (tTrace[i].alertType = "failure") <=> (i = tThreshold)
     /\ Cardinality({i \in 1..K : tTrace[i].alertType = "failure"})
          = IF K >= tThreshold THEN 1 ELSE 0

C1_Witness ==
  /\ Baseline /\ AllFailed /\ tThreshold = 2 /\ K = 3
  /\ tTrace[1].alertType = NoAlert /\ tTrace[1].newState.status = "degraded"
  /\ tTrace[2].alertType = "failure"
  /\ tTrace[3].alertType = NoAlert /\ tState.status = "unhealthy"

\* C3: from an unhealthy state the first successful result gives healthy
\* with a recovery alert, and each success that follows it without an
\* intervening failure gives healthy with no alert.
C3_RecoveryExactlyOnce ==
  \A i \in 1..K :
    (tTrace[i].prior.status = "unhealthy" /\ tTrace[i].result.success) =>
       /\ tTrace[i].newState.status = "healthy"
       /\ tTrace[i].alertType = "recovery"
       /\ \A j \in (i + 1)..K :
            (\A k \in i..j : tTrace[k].result.success) =>
               /\ tTrace[j].newState.status = "healthy"
               /\ tTrace[j].alertType = NoAlert

C3_Witness ==
  /\ K >= 3
  /\ tTrace[1].prior.status = "unhealthy"
  /\ tTrace[1].result.success /\ tTrace[1].alertType = "recovery"
  /\ tTrace[2].result.success /\ tTrace[2].alertType = NoAlert
  /\ tTrace[3].result.success /\ tTrace[3].alertType = NoAlert

\* C5: a successful result always yields status healthy, counter 0 and
\* lastError null, and the alert is recovery exactly when the prior status
\* was unhealthy, otherwise null.
C5_SuccessResets ==
  \A i \in 1..K :
    tTrace[i].result.success =>
       /\ tTrace[i].newState.status = "healthy"
       /\ tTrace[i].newState.consecutiveFailures = 0
       /\ tTrace[i].newState.lastError = Null
       /\ tTrace[i].alertType =
            IF tTrace[i].prior.status = "unhealthy" THEN "recovery" ELSE NoAlert

C5_Witness ==
  /\ K >= 1
  /\ tTrace[1].prior.status = "degraded"
  /\ tTrace[1].prior.consecutiveFailures > 0
  /\ tTrace[1].prior.lastError # Null
  /\ tTrace[1].result.success
  /\ tTrace[1].alertType = NoAlert

\* C6: with N >= 2, from a baseline state, as long as no N results in a row
\* have failed, no call has returned an alert and no call has produced the
\* status unhealthy.
C6_FlappingNeverAlerts ==
  (tThreshold >= 2 /\ Baseline /\ ~\E i \in 1..K : FailRunEndsAt(i, tThreshold)) =>
     \A i \in 1..K : /\ tTrace[i].alertType = NoAlert
                     /\ tTrace[i].newState.status # "unhealthy"

C6_Witness ==
  /\ tThreshold = 2 /\ Baseline /\ K = 4
  /\ ~tTrace[1].result.success /\ tTrace[2].result.success
  /\ ~tTrace[3].result.success /\ tTrace[4].result.success
  /\ \A i \in 1..K : tTrace[i].alertType = NoAlert

(* -------------- SpecF: ticks whose collaborators may fail -------------- *)
\* what bucket.get(stateKey), obj.text() and JSON.parse give loadState: the
\* stored object (null when the key is missing), a rejected read, or a text
\* that does not parse
BucketReads ==
  { [kind |-> "object", obj |-> stored], [kind |-> "rejects", obj |-> Null],
    [kind |-> "unparsable", obj |-> Null] }

loadStateCatch_rethrow(read) ==
  IF read.kind = "object" THEN [threw |-> FALSE, state |-> loadState(read.obj)]
  ELSE IF read.kind = "unparsable" THEN [threw |-> FALSE, state |-> createEmptyState]
  ELSE [threw |-> TRUE, state |-> createEmptyState]

\* loadState with its try/catch: whatever is thrown inside is caught and the
\* empty state returned
loadStateCatch(read) ==
  [threw |-> FALSE,
   state |-> IF read.kind = "object" THEN loadState(read.obj) ELSE createEmptyState]

\* how a call ends for runMonitoringChecks, given whether the callee
\* succeeded: "continue" with the next statement or "throw" out of the tick
\* await loadChecks(db), await ensureResultsTable(db): not guarded
Outcome_loadChecks(ok) == IF ok THEN "continue" ELSE "throw"
\* await isInMaintenance(db, check.id, check.group_id): not guarded
Outcome_isInMaintenance(ok) == IF ok THEN "continue" ELSE "throw"
\* options.resolveUrl?.(check.url, env): not guarded
Outcome_resolveUrl(ok) == IF ok THEN "continue" ELSE "throw"
\* ae.writeDataPoint({...}): not guarded
Outcome_writeDataPoint(ok) == IF ok THEN "continue" ELSE "throw"
\* await insertCheckResult(...).catch(...)
Outcome_insertCheckResult(ok) == "continue"
\* await createIncident(...).catch(...), await resolveIncidents(...).catch(...)
Outcome_incident(ok) == "continue"

Outcome_onAlert_rethrow(ok) == IF ok THEN "continue" ELSE "throw"

\* try { await options.onAlert(payload, env) } catch (err) { console.error }
Outcome_onAlert(ok) == "continue"

Outcome_saveState_swallow(ok) == "continue"

\* await saveState(bucket, defaults.stateKey, state): not guarded
Outcome_saveState(ok) == IF ok THEN "continue" ELSE "throw"
\* await pruneHistory(db).catch(...)
Outcome_pruneHistory(ok) == "continue"

skipsTarget_wrongFlag(maintenance) == maintenance = "suppress_alerts"

\* if (maintenance?.skip_checks) continue
skipsTarget(maintenance) == maintenance = "skip_checks"

incidentOp_else(alertType) ==
  IF alertType = "failure" THEN "create" ELSE "resolve"

\* if (alertType === 'failure') createIncident
\* else if (alertType === 'recovery') resolveIncidents
incidentOp(alertType) ==
  IF alertType = "failure" THEN "create"
  ELSE IF alertType = "recovery" THEN "resolve"
  ELSE "none"

firesAlert_ignoreMaintenance(alertType, onAlert, maintenance) ==
  alertType # NoAlert /\ onAlert

\* if (alertType && options.onAlert && !maintenance?.suppress_alerts)
firesAlert(alertType, onAlert, maintenance) ==
  alertType # NoAlert /\ onAlert /\ maintenance # "suppress_alerts"

stampLastRun_afterSave(state, now) == state

\* state.lastRun = new Date().toISOString()
stampLastRun(state, now) == [state EXCEPT !.lastRun = Some(now)]

\* an error leaves runMonitoringChecks: the promise runChecks returned rejects
TickRejects(cause) ==
  /\ oPc' = "idle"
  /\ fOutcome' = "rejected"
  /\ fCause' = cause

\* runMonitoringChecks is called: loadChecks, loadState, ensureResultsTable
FTickStart ==
  /\ oPc = "idle"
  /\ oClock < MaxTicks
  /\ oClock' = oClock + 1
  /\ fOps' = [id \in Targets |-> NoOps]
  /\ fPuts' = 0
  /\ \E dbOk \in BOOLEAN, read \in BucketReads :
       LET loaded == loadStateCatch(read)
       IN IF Outcome_loadChecks(dbOk) = "throw"
          THEN /\ read.kind = "object"
               /\ TickRejects("loadChecks")
               /\ fRead' = "none"
               /\ oChecks' = <<>> /\ oIdx' = 0 /\ oState' = createEmptyState
          ELSE /\ oChecks' = loadChecks(dbChecks)
               /\ fRead' = read.kind
               /\ oState' = loaded.state
               /\ IF loaded.threw
                  THEN TickRejects("loadState") /\ oIdx' = 0
                  ELSE /\ oIdx' = 1 /\ oPc' = "target"
                       /\ fOutcome' = "none" /\ fCause' = "none"
  /\ UNCHANGED <<yvars, dbChecks, edited, stored, incidents, oMaint, fOnAlert, cvars,
                 tvars, rvars>>

\* the targets of these ticks either answer 200 with a healthy body or
\* cannot be reached
UpResponses == { response \in Responses : response.status = 200 }
UpBodies == {BODY_OK}
DownErrors == {MSG_DNS}

\* the results one executeCheck attempt can return for check when the
\* response, or the refusal, arrives before the timeout
AttemptResults(check) ==
  { ResponseResult(check, response, rt,
                   IF needsBody(check) THEN Some(body) ELSE Null) :
      response \in UpResponses, rt \in ResponseTimes, body \in UpBodies }
  \cup { CatchResult(check, message, rt) :
            message \in DownErrors, rt \in ResponseTimes }

\* runCheck returns the result of the last attempt it made: with or without
\* retries, one of the results of an attempt
runCheckResults(check) == AttemptResults(check)

\* what isInMaintenance answers, or "throws" when the query fails
MaintenanceLookups == MaintenanceWindows \cup {"throws"}

\* top of the loop body: the maintenance lookup, `continue` for a window
\* with skip_checks, otherwise resolveUrl and the awaited call of runCheck
FTargetBegin ==
  /\ oPc = "target"
  /\ oIdx <= Len(oChecks)
  /\ \E lookup \in MaintenanceLookups, urlOk \in BOOLEAN :
       LET id == oChecks[oIdx].id
       IN IF Outcome_isInMaintenance(lookup # "throws") = "throw"
          THEN /\ urlOk
               /\ TickRejects("isInMaintenance")
               /\ UNCHANGED <<oIdx, oMaint, fOps, rvars>>
          ELSE IF lookup # "throws" /\ skipsTarget(lookup)
          THEN /\ urlOk
               /\ oIdx' = oIdx + 1
               /\ fOps' = [fOps EXCEPT ![id].maint = lookup]
               /\ UNCHANGED <<oPc, oMaint, fOutcome, fCause, rvars>>
          ELSE LET window == IF lookup = "throws" THEN "none" ELSE lookup
               IN /\ fOps' = [fOps EXCEPT ![id].maint = window]
                  /\ IF Outcome_resolveUrl(urlOk) = "throw"
                     THEN /\ TickRejects("resolveUrl")
                          /\ UNCHANGED <<oIdx, oMaint, rvars>>
                     ELSE /\ oMaint' = window
                          /\ oPc' = "running"
                          /\ rCheck' = oChecks[oIdx]
                          /\ \E result \in runCheckResults(oChecks[oIdx]) :
                               rResult' = Some(result)
                          /\ rPc' = "returned"
                          /\ UNCHANGED <<oIdx, fOutcome, fCause, rAttempt, rTimer,
                                         rElapsed, rResponse, rRt, rStarted, rLog>>
  /\ UNCHANGED <<yvars, dbChecks, edited, stored, incidents, oChecks, oState,
                 oClock, fOnAlert, cvars, fRead, fPuts, tvars>>

\* runCheck has returned: the metrics data point, the check_results row, the
\* transition stored in memory, the incident write, the alert dispatch
FTargetFinish ==
  /\ oPc = "running"
  /\ rPc = "returned"
  /\ \E aeOk \in BOOLEAN, rowOk \in BOOLEAN, incOk \in BOOLEAN, alertOk \in BOOLEAN :
       LET check == oChecks[oIdx]
           result == rResult[1]
           checkState == Coalesce(oState.checks[check.id], createEmptyCheckState)
           out == computeTransition(checkState, result, check.failure_threshold, oClock)
           op == incidentOp(out.alertType)
           fires == firesAlert(out.alertType, fOnAlert, oMaint)
           reachedRow == Outcome_writeDataPoint(aeOk) = "continue"
           reachedTransition ==
             reachedRow /\ Outcome_insertCheckResult(rowOk) = "continue"
           reachedDispatch ==
             reachedTransition /\ (op = "none" \/ Outcome_incident(incOk) = "continue")
           completed ==
             reachedDispatch /\ (~fires \/ Outcome_onAlert(alertOk) = "continue")
           invokedIncident == reachedTransition /\ op # "none"
           invokedAlert == reachedDispatch /\ fires
       IN /\ reachedRow \/ rowOk
          /\ invokedIncident \/ incOk
          /\ invokedAlert \/ alertOk
          /\ oState' = IF reachedTransition
                       THEN [oState EXCEPT !.checks[check.id] = Some(out.newState)]
                       ELSE oState
          /\ incidents' =
               IF invokedIncident /\ incOk
               THEN [incidents EXCEPT ![check.id] = IF op = "create" THEN @ + 1 ELSE 0]
               ELSE incidents
          /\ fOps' = [fOps EXCEPT ![check.id] =
               [maint |-> oMaint, probed |-> TRUE, metric |-> TRUE,
                row |-> reachedRow,
                computed |-> IF reachedTransition THEN Some(out.newState) ELSE Null,
                alertType |-> IF reachedTransition THEN out.alertType ELSE NoAlert,
                incident |-> IF reachedTransition THEN op ELSE "none",
                dispatched |-> invokedAlert, alertThrew |-> ~alertOk]]
          /\ IF completed
             THEN /\ oIdx' = oIdx + 1 /\ oPc' = "target"
                  /\ UNCHANGED <<fOutcome, fCause>>
             ELSE /\ TickRejects(IF ~reachedRow THEN "writeDataPoint"
                                 ELSE IF ~reachedTransition THEN "insertCheckResult"
                                 ELSE IF ~reachedDispatch THEN "incident"
                                 ELSE "onAlert")
                  /\ UNCHANGED oIdx
  /\ oMaint' = "none"
  /\ RunnerReset
  /\ UNCHANGED <<yvars, dbChecks, edited, stored, oChecks, oClock, fOnAlert, cvars, fRead, fPuts,
                 tvars>>

\* after the loop: lastRun is stamped, the state saved, the history pruned
FTickEnd ==
  /\ oPc = "target"
  /\ oIdx > Len(oChecks)
  /\ \E putOk \in BOOLEAN, pruneOk \in BOOLEAN :
       LET stamped == stampLastRun(oState, oClock)
           reachedPrune == Outcome_saveState(putOk) = "continue"
           completed == reachedPrune /\ Outcome_pruneHistory(pruneOk) = "continue"
       IN /\ reachedPrune \/ pruneOk
          /\ oState' = stamped
          /\ fPuts' = fPuts + 1
          /\ stored' = IF putOk THEN saveState(stamped) ELSE stored
          /\ IF completed
             THEN oPc' = "idle" /\ fOutcome' = "resolved" /\ fCause' = "none"
             ELSE TickRejects(IF ~reachedPrune THEN "saveState" ELSE "pruneHistory")
  /\ UNCHANGED <<yvars, dbChecks, edited, incidents, oChecks, oIdx, oClock, oMaint,
                 fOnAlert, cvars, fOps, fRead, tvars, rvars>>

\* the monitor is created with or without an onAlert callback
InitF ==
  /\ AIdle /\ BIdle /\ LIdle /\ PIdle /\ SIdle
  /\ TranIdle /\ RunnerIdle /\ OrchestratorIdle
  /\ fOnAlert \in BOOLEAN

NextF ==
  \/ FTickStart
  \/ FTargetBegin
  \/ FTargetFinish
  \/ FTickEnd

SpecF == InitF /\ [][NextF]_vars

(* ---------------------- properties of failing ticks -------------------- *)
TickInProgress == oPc \in {"target", "running"}
LoopDone == oPc = "target" /\ oIdx > Len(oChecks)

\* C11: a tick that completes has invoked saveState exactly once, the object
\* in the bucket is the in-memory state with the tick's lastRun stamp and
\* every Check State the tick computed; while the tick is in progress
\* saveState has not been invoked, and the bucket changes only in the step
\* that follows the last loop iteration.
C11_SavedOnceAtEnd ==
  /\ [](fOutcome = "resolved" =>
          /\ fPuts = 1
          /\ stored = Some(oState)
          /\ stored[1].lastRun = Some(oClock)
          /\ \A id \in Targets :
               fOps[id].computed # Null => stored[1].checks[id] = fOps[id].computed)
  /\ [](TickInProgress => fPuts = 0)
  /\ [][stored' # stored => LoopDone]_vars

C11_Witness ==
  /\ fOutcome = "resolved"
  /\ oClock = 2
  /\ \A id \in Targets : fOps[id].computed # Null
  /\ fOps["b"].dispatched

\* the Monitoring State loadState returned to the tick in progress
Loaded == IF fRead = "object" THEN loadState(stored) ELSE createEmptyState

\* C12: for a target whose maintenance window has skip_checks, the tick
\* performs no probe, writes no metric and no row, computes no transition,
\* touches no incident and dispatches no alert, keeps the loaded entry in
\* memory, and the step that saves the state writes that loaded entry.
C12_SkippedTargetUntouched ==
  /\ [](\A id \in Targets : fOps[id].maint = "skip_checks" =>
          /\ ~fOps[id].probed /\ ~fOps[id].metric /\ ~fOps[id].row
          /\ fOps[id].computed = Null /\ fOps[id].alertType = NoAlert
          /\ fOps[id].incident = "none" /\ ~fOps[id].dispatched
          /\ (TickInProgress => oState.checks[id] = Loaded.checks[id]))
  /\ [][(LoopDone /\ fOutcome' = "resolved") =>
          \A id \in Targets : fOps[id].maint = "skip_checks" =>
             stored'[1].checks[id] = Loaded.checks[id]]_vars

C12_Witness ==
  /\ fOutcome = "resolved"
  /\ fOps["b"].maint = "skip_checks"
  /\ stored[1].checks["b"] # Null
  /\ stored[1].checks["b"][1].status = "unhealthy"
  /\ fOps["a"].computed # Null

\* C13: with an onAlert callback, onAlert is invoked for a target in a tick
\* iff its transition produced an alert type and its maintenance window does
\* not suppress alerts; the Check State of a suppressed target is computed
\* and stored in the in-memory state all the same.
C13_DispatchIffAlertAndNotSuppressed ==
  fOnAlert =>
    \A id \in Targets :
      /\ fOps[id].dispatched <=>
           (fOps[id].alertType # NoAlert /\ fOps[id].maint # "suppress_alerts")
      /\ (fOps[id].maint = "suppress_alerts" /\ fOps[id].row) =>
           /\ fOps[id].computed # Null
           /\ oState.checks[id] = fOps[id].computed

C13_Witness ==
  /\ fOnAlert
  /\ fOps["b"].maint = "suppress_alerts" /\ fOps["b"].alertType = "failure"
  /\ ~fOps["b"].dispatched
  /\ fOps["a"].alertType = "failure" /\ fOps["a"].dispatched

\* C14: when onAlert throws for a target, the loop moves on to the next
\* target, the Check State computed for the alerting target stays in the
\* in-memory state and is the one saved when the tick completes, and no tick
\* is ever rejected because of onAlert.
C14_AlertFailureSwallowed ==
  /\ [](fCause # "onAlert")
  /\ [](\A id \in Targets : fOps[id].alertThrew =>
          /\ oState.checks[id] = fOps[id].computed
          /\ fOutcome = "resolved" => stored[1].checks[id] = fOps[id].computed)
  /\ [][\A id \in Targets : (fOps'[id].alertThrew /\ ~fOps[id].alertThrew) =>
          (oPc' = "target" /\ oIdx' = oIdx + 1)]_vars

C14_Witness ==
  /\ fOutcome = "resolved"
  /\ fOps["a"].alertThrew
  /\ fOps["b"].computed # Null

\* C15: no tick is rejected because a best-effort side effect failed (the
\* metrics write, the check_results insert, the incident writes, the prune).
C15_BestEffortSwallowed ==
  fCause \notin {"writeDataPoint", "insertCheckResult", "incident", "pruneHistory"}

\* C16: no tick is rejected because the maintenance lookup, the URL resolver
\* or the probe failed while a target was handled.
C16_TargetsIsolated ==
  fCause \notin {"isInMaintenance", "resolveUrl", "runCheck"}

\* C17: a tick whose saveState call failed (the bucket does not hold the
\* stamped in-memory state after the call) is rejected with that failure.
C17_SaveFailureRejects ==
  (oPc = "idle" /\ fPuts = 1 /\ stored # Some(oState)) =>
     (fOutcome = "rejected" /\ fCause = "saveState")

C17_Witness ==
  /\ fOutcome = "rejected" /\ fCause = "saveState"
  /\ fPuts = 1
  /\ \A id \in Targets : fOps[id].computed # Null

\* the read of the tick in progress gave loadState nothing to use
LoadFellBack == fRead \in {"rejects", "unparsable"} \/ (fRead = "object" /\ stored = Null)

\* C18: loadState never makes the tick reject; when the key is missing, the
\* read fails or the text does not parse, the tick runs on the empty
\* Monitoring State: lastRun null, no entry for the targets not yet
\* processed, and each target's prior state at its transition is unknown.
C18_LoadNeverThrows ==
  /\ fCause # "loadState"
  /\ (TickInProgress /\ LoadFellBack) =>
       /\ oState.lastRun = Null
       /\ \A id \in Targets : fOps[id].computed = Null => oState.checks[id] = Null
       /\ oPc = "running" => TickPrior = createEmptyCheckState

C18_Witness ==
  /\ fRead = "unparsable"
  /\ stored # Null /\ stored[1].checks["b"] # Null
  /\ oPc = "running" /\ oIdx = 2

CTickStart(t) ==
  /\ cPc[t] = "idle"
  /\ oClock < MaxTicks
  /\ oClock' = oClock + 1
  /\ cState' = [cState EXCEPT ![t] = loadState(stored)]
  /\ cIdx' = [cIdx EXCEPT ![t] = 1]
  /\ cPc' = [cPc EXCEPT ![t] = "target"]
  /\ UNCHANGED <<yvars, dbChecks, edited, stored, incidents, oPc, oChecks, oIdx,
                 oState, oMaint, cAlerts, fvars, tvars, rvars>>

\* one iteration of the loop of invocation t, outside maintenance windows:
\* runCheck, the transition, the incident write, the alert dispatch
CTarget(t) ==
  /\ cPc[t] = "target"
  /\ cIdx[t] <= Len(loadChecks(dbChecks))
  /\ LET check == loadChecks(dbChecks)[cIdx[t]]
         checkState == Coalesce(cState[t].checks[check.id], createEmptyCheckState)
     IN \E result \in runCheckResults(check) :
          LET out == computeTransition(checkState, result, check.failure_threshold,
                                       oClock)
              op == incidentOp(out.alertType)
          IN /\ cState' = [cState EXCEPT ![t].checks[check.id] = Some(out.newState)]
             /\ incidents' =
                  IF op = "create" THEN [incidents EXCEPT ![check.id] = @ + 1]
                  ELSE IF op = "resolve" THEN [incidents EXCEPT ![check.id] = 0]
                  ELSE incidents
             /\ cAlerts' =
                  IF firesAlert(out.alertType, fOnAlert, "none")
                  THEN cAlerts \cup {[tick |-> t, id |-> check.id,
                                      type |-> out.alertType, prior |-> checkState]}
                  ELSE cAlerts
  /\ cIdx' = [cIdx EXCEPT ![t] = @ + 1]
  /\ UNCHANGED <<yvars, dbChecks, edited, stored, oPc, oChecks, oIdx, oState, oClock,
                 oMaint, cPc, fvars, tvars, rvars>>

\* after the loop of invocation t: lastRun is stamped and the state saved
CTickEnd(t) ==
  /\ cPc[t] = "target"
  /\ cIdx[t] > Len(loadChecks(dbChecks))
  /\ stored' = saveState(stampLastRun(cState[t], oClock))
  /\ cState' = [cState EXCEPT ![t] = stampLastRun(cState[t], oClock)]
  /\ cPc' = [cPc EXCEPT ![t] = "idle"]
  /\ UNCHANGED <<yvars, dbChecks, edited, incidents, oPc, oChecks, oIdx, oState,
                 oClock, oMaint, cIdx, cAlerts, fvars, tvars, rvars>>

InitC ==
  /\ TranIdle /\ RunnerIdle /\ OrchestratorIdle /\ fOnAlert = TRUE
  /\ AIdle /\ BIdle /\ LIdle /\ PIdle /\ SIdle

NextC ==
  \/ \E t \in TickIds : CTickStart(t)
  \/ \E t \in TickIds : CTarget(t)
  \/ \E t \in TickIds : CTickEnd(t)

SpecC == InitC /\ [][NextC]_vars

\* the invocations between their load and their save
InFlight == { t \in TickIds : cPc[t] # "idle" }

\* C19: at most one invocation is between its load of the Monitoring State
\* and its save, and no two invocations dispatch an alert of the same type
\* for the same target out of the same prior Check State.
C19_TicksNeverInterleave ==
  /\ Cardinality(InFlight) <= 1
  /\ \A x \in cAlerts, y \in cAlerts :
       (x.id = y.id /\ x.type = y.type /\ x.prior = y.prior) => x.tick = y.tick

\* ---------------------------------------------------------------------
\* SpecA: one call of evaluateAssertions on arbitrary arguments
\* ---------------------------------------------------------------------

ETAG == <<"e","t","a","g">>
EMPTY == <<>>

\* the assertions a check may carry (types.ts: StatusCodeAssertion,
\* HeaderAssertion, BodyAssertion, ResponseTimeAssertion)
AssertionAtoms ==
  {[type |-> "statusCode", operator |-> "is", value |-> 200],
   [type |-> "statusCode", operator |-> "isNot", value |-> 503],
   [type |-> "responseTime", operator |-> "lessThan", value |-> 2],
   [type |-> "header", name |-> ETAG, operator |-> "is", value |-> EMPTY],
   [type |-> "header", name |-> ETAG, operator |-> "isNot", value |-> EMPTY]}
  \cup {[type |-> "header", name |-> ETAG, operator |-> op, value |-> v] :
          op \in {"contains", "notContains"}, v \in {EMPTY, OK}}
  \cup {[type |-> "body", operator |-> op, value |-> OK] :
          op \in {"contains", "notContains", "matches"}}

\* assertion lists of at most MaxAssertions entries
AssertionLists == UNION {[1..n -> AssertionAtoms] : n \in 0..MaxAssertions}

\* responses: the header is missing, empty, or "ok"
AResponses ==
  [status : {200, 503}, headers : [HeaderNames -> {Null, Some(EMPTY), Some(OK)}]]

\* body argument: not read, or the text read
ABodies == {Null, Some(BODY_OK), Some(BODY_ERROR)}

\* elapsed times below, at and above the asserted value
ElapsedTimes == 1..3

InitA ==
  /\ TranIdle /\ RunnerIdle /\ OrchestratorIdle /\ fOnAlert = TRUE
  /\ BIdle /\ LIdle /\ PIdle /\ SIdle
  /\ aAssertions \in AssertionLists
  /\ aResponse \in AResponses
  /\ aRt \in ElapsedTimes
  /\ aBody \in ABodies
  /\ aFailures = Null

\* const failures = evaluateAssertions(assertions, response, responseTimeMs, body)
Evaluate ==
  /\ aFailures = Null
  /\ aFailures' = Some(evaluateAssertions(aAssertions, aResponse, aRt, aBody))
  /\ UNCHANGED <<aAssertions, aResponse, aRt, aBody>>
  /\ UNCHANGED <<tvars, rvars, ovars, fvars, cvars, bvars, lvars, pvars, svars>>

NextA == Evaluate
SpecA == InitA /\ [][NextA]_vars

\* what each assertion asks of the response, stated on the values
Satisfies(a, response, responseTimeMs, body) ==
  CASE a.type = "statusCode" ->
         IF a.operator = "is" THEN response.status = a.value
         ELSE response.status # a.value
    [] a.type = "header" ->
         LET h == response.headers[a.name]
             v == Coalesce(h, <<>>)
         IN CASE a.operator = "is" -> v = a.value
              [] a.operator = "isNot" -> v # a.value
              [] a.operator = "contains" -> h # Null /\ Includes(v, a.value)
              [] a.operator = "notContains" -> ~Includes(v, a.value)
              [] OTHER -> Includes(v, a.value)
    [] a.type = "body" ->
         /\ body # Null
         /\ CASE a.operator = "contains" -> Includes(body[1], a.value)
              [] a.operator = "notContains" -> ~Includes(body[1], a.value)
              [] OTHER -> Includes(body[1], a.value)
    [] OTHER -> responseTimeMs < a.value

AViolated(a) == ~Satisfies(a, aResponse, aRt, aBody)

MissingHeaderCase ==
  /\ aFailures # Null
  /\ Len(aAssertions) = 1
  /\ aAssertions[1].type = "header"
  /\ aResponse.headers[aAssertions[1].name] = Null

\* C22: on a missing header, 'is' and 'isNot' are evaluated as on the empty
\* string, and 'contains' and 'notContains' always fail, whatever the value
C22_MissingHeader ==
  MissingHeaderCase =>
    LET a == aAssertions[1]
        failed == aFailures[1] # <<>>
    IN CASE a.operator = "is" -> failed <=> (a.value # EMPTY)
         [] a.operator = "isNot" -> failed <=> (a.value = EMPTY)
         [] a.operator \in {"contains", "notContains"} -> failed
         [] OTHER -> TRUE

\* the reasons a body assertion gives when the text read does not comply
ContentMismatchReasons ==
  {r[1] : r \in {bodyFailure(a, b) : a \in {x \in AssertionAtoms : x.type = "body"},
                                     b \in ABodies \ {Null}} \ {<<>>}}

\* the failures reported for the assertions before position k
FailuresBefore(k) ==
  evaluateAssertions(SubSeq(aAssertions, 1, k - 1), aResponse, aRt, aBody)

\* C23: with a null body, each body assertion yields exactly one failure, whose
\* reason no content mismatch gives, and the assertions after it are evaluated
C23_NullBodyDistinctFailure ==
  (aFailures # Null /\ aBody = Null) =>
    \A k \in 1..Len(aAssertions) :
      aAssertions[k].type = "body" =>
        LET at == Len(FailuresBefore(k)) + 1
        IN /\ Len(aFailures[1]) >= at
           /\ aFailures[1][at] = BODY_NOT_READ
           /\ aFailures[1][at] \notin ContentMismatchReasons
           /\ Len(aFailures[1]) = Len(FailuresBefore(k + 1))
                + Len(evaluateAssertions(SubSeq(aAssertions, k + 1, Len(aAssertions)),
                                         aResponse, aRt, aBody))
           /\ Len(FailuresBefore(k + 1)) = at

\* a null body, a body assertion first and a violated assertion after it
C23_Witness ==
  /\ aFailures # Null /\ aBody = Null
  /\ Len(aAssertions) = 2
  /\ aAssertions[1].type = "body"
  /\ aAssertions[2].type = "statusCode" /\ AViolated(aAssertions[2])
  /\ Len(aFailures[1]) = 2
  /\ aFailures[1][1] = BODY_NOT_READ

\* the call is a single responseTime assertion
ResponseTimeCase ==
  /\ aFailures # Null
  /\ Len(aAssertions) = 1
  /\ aAssertions[1].type = "responseTime"
  /\ aAssertions[1].operator = "lessThan"

\* C24: a responseTime 'lessThan' assertion with value T fails iff the elapsed
\* time is >= T; an elapsed time equal to T is a failure
C24_LessThanBoundary ==
  ResponseTimeCase =>
    ((aFailures[1] # <<>>) <=> (aRt >= aAssertions[1].value))

\* the elapsed time equals the asserted value and the assertion failed
C24_Witness ==
  /\ ResponseTimeCase
  /\ aRt = aAssertions[1].value
  /\ Len(aFailures[1]) = 1

\* ---------------------------------------------------------------------
\* SpecB: one call of readBodyCapped on a response stream
\* ---------------------------------------------------------------------

MAX_BODY_SIZE == 64 * 1024

\* byte lengths of the chunks reader.read() may deliver
ChunkSizes == {1, MAX_BODY_SIZE \div 2, MAX_BODY_SIZE - 1, MAX_BODY_SIZE,
               MAX_BODY_SIZE + 1}

\* response bodies: none, or a stream of at most MaxChunks chunks
Streams ==
  [hasBody : {TRUE}, chunks : UNION {[1..n -> ChunkSizes] : n \in 0..MaxChunks}]
  \cup {[hasBody |-> FALSE, chunks |-> <<>>]}

InitB ==
  /\ TranIdle /\ RunnerIdle /\ OrchestratorIdle /\ fOnAlert = TRUE
  /\ AIdle /\ LIdle /\ PIdle /\ SIdle
  /\ bStream \in Streams
  /\ bChunks = <<>> /\ bTotalSize = 0 /\ bPc = "call"

\* const reader = response.body?.getReader(); if (!reader) return ''
GetReader ==
  /\ bPc = "call"
  /\ bPc' = IF bStream.hasBody THEN "loop" ELSE "returned"
  /\ UNCHANGED <<bStream, bChunks, bTotalSize>>

\* a pass of the while loop in which reader.read() delivers a chunk
ReadChunk ==
  /\ bPc = "loop"
  /\ bTotalSize < MAX_BODY_SIZE
  /\ bStream.chunks # <<>>
  /\ bChunks' = Append(bChunks, Head(bStream.chunks))
  /\ bTotalSize' = bTotalSize + Head(bStream.chunks)
  /\ bStream' = [bStream EXCEPT !.chunks = Tail(bStream.chunks)]
  /\ UNCHANGED bPc

\* reader.read() reports done: break, decode and return
ReadDone ==
  /\ bPc = "loop"
  /\ bTotalSize < MAX_BODY_SIZE
  /\ bStream.chunks = <<>>
  /\ bPc' = "returned"
  /\ UNCHANGED <<bStream, bChunks, bTotalSize>>

\* the loop condition totalSize < MAX_BODY_SIZE fails: decode and return
LoopExit ==
  /\ bPc = "loop"
  /\ bTotalSize >= MAX_BODY_SIZE
  /\ bPc' = "returned"
  /\ UNCHANGED <<bStream, bChunks, bTotalSize>>

NextB ==
  \/ GetReader
       /\ UNCHANGED <<tvars, rvars, ovars, fvars, cvars, avars, lvars, pvars, svars>>
  \/ ReadChunk
       /\ UNCHANGED <<tvars, rvars, ovars, fvars, cvars, avars, lvars, pvars, svars>>
  \/ ReadDone
       /\ UNCHANGED <<tvars, rvars, ovars, fvars, cvars, avars, lvars, pvars, svars>>
  \/ LoopExit
       /\ UNCHANGED <<tvars, rvars, ovars, fvars, cvars, avars, lvars, pvars, svars>>
SpecB == InitB /\ [][NextB]_vars

RECURSIVE SumSeq(_)
SumSeq(q) == IF q = <<>> THEN 0 ELSE Head(q) + SumSeq(Tail(q))

\* C25: readBodyCapped never captures more than MAX_BODY_SIZE bytes, whatever
\* the sizes and number of the chunks the stream delivers
C25_CaptureWithinCap ==
  /\ bTotalSize = SumSeq(bChunks)
  /\ SumSeq(bChunks) <= MAX_BODY_SIZE

\* ---------------------------------------------------------------------
\* SpecL: one persisted check entry read by loadState, then one probe
\* ---------------------------------------------------------------------

InitL ==
  /\ TranIdle /\ RunnerIdle /\ OrchestratorIdle /\ fOnAlert = TRUE
  /\ AIdle /\ BIdle /\ PIdle /\ SIdle
  /\ lRaw \in {Some(cs) : cs \in RawEntries}
  /\ lEntry = Null /\ lOut = Null

\* loadState parses the object and rebuilds the entry
Normalize ==
  /\ lRaw # Null /\ lEntry = Null
  /\ lEntry' = Some(normalizeEntry(lRaw[1]))
  /\ UNCHANGED <<lRaw, lOut>>

\* the tick folds one Check Result into the loaded entry
Fold ==
  /\ lEntry # Null /\ lOut = Null
  /\ \E result \in TResults, threshold \in 1..MaxThreshold :
       lOut' = Some([result |-> result, threshold |-> threshold,
                     out |-> computeTransition(AsCheckState(lEntry[1]), result,
                                               threshold, 2)])
  /\ UNCHANGED <<lRaw, lEntry>>

NextL ==
  \/ Normalize
       /\ UNCHANGED <<tvars, rvars, ovars, fvars, cvars, avars, bvars, pvars, svars>>
  \/ Fold
       /\ UNCHANGED <<tvars, rvars, ovars, fvars, cvars, avars, bvars, pvars, svars>>
SpecL == InitL /\ [][NextL]_vars

\* the value a persisted entry gives a field, or the field's zeroed default
RawOr(k, default) ==
  IF k \in DOMAIN lRaw[1] /\ lRaw[1][k] # Null THEN lRaw[1][k][1] ELSE default

\* C26: whatever fields a persisted entry lacks or carries in excess,
\* loadState yields an entry with exactly the six state fields, each missing
\* one replaced by its zeroed default, and the transition rules then apply to
\* that entry
C26_LegacyEntryNormalized ==
  /\ lEntry # Null =>
       /\ DOMAIN lEntry[1] = StateFields
       /\ lEntry[1].status = RawOr("status", "unknown")
       /\ lEntry[1].consecutiveFailures = RawOr("consecutiveFailures", 0)
       /\ \A k \in StateFields \ {"status", "consecutiveFailures"} :
            lEntry[1][k] = IF k \in DOMAIN lRaw[1] THEN lRaw[1][k] ELSE Null
  /\ lOut # Null =>
       LET status == RawOr("status", "unknown")
           count == RawOr("consecutiveFailures", 0)
           new == lOut[1].out.newState
           alert == lOut[1].out.alertType
       IN /\ new.history = Some(<<>>)
          /\ IF lOut[1].result.success
             THEN /\ new.status = "healthy" /\ new.consecutiveFailures = 0
                  /\ new.lastError = Null
                  /\ alert = IF status = "unhealthy" THEN "recovery" ELSE NoAlert
             ELSE /\ new.consecutiveFailures = count + 1
                  /\ new.status = IF count + 1 >= lOut[1].threshold
                                  THEN "unhealthy" ELSE "degraded"
                  /\ alert = IF count + 1 >= lOut[1].threshold /\ status # "unhealthy"
                             THEN "failure" ELSE NoAlert

\* an entry with id and history but neither status nor counter has been
\* loaded and a failing result folded into it
C26_Witness ==
  /\ lOut # Null
  /\ LegacyFields \subseteq DOMAIN lRaw[1]
  /\ "status" \notin DOMAIN lRaw[1]
  /\ "consecutiveFailures" \notin DOMAIN lRaw[1]
  /\ lEntry[1].status = "unknown"
  /\ ~lOut[1].result.success
  /\ lOut[1].out.newState.consecutiveFailures = 1

\* ---------------------------------------------------------------------
\* SpecD: computeTransition called again with the same arguments
\* ---------------------------------------------------------------------

\* the instant the previous call read from the clock
LastInstant ==
  IF tTrace = <<>> THEN 1 ELSE tTrace[Len(tTrace)].newState.lastCheck[1]

\* const now = new Date().toISOString(): the same instant as the previous
\* call when both fall in one millisecond, a later one otherwise
ClockReads == {LastInstant, LastInstant + 1}

\* computeTransition(tBase, result, tThreshold), whatever was returned before
Recall ==
  /\ Len(tTrace) < MaxRecalls
  /\ \E result \in TResults, now \in ClockReads :
       LET out == computeTransition(tBase, result, tThreshold, now)
       IN /\ tState' = out.newState
          /\ tTrace' = Append(tTrace, [prior |-> tBase, result |-> result,
                                       newState |-> out.newState,
                                       alertType |-> out.alertType])
  /\ UNCHANGED <<tBase, tThreshold, rvars, ovars, xvars>>

NextD == Recall
SpecD == InitT /\ [][NextD]_vars

\* C27: two calls of computeTransition with equal (priorState, result,
\* threshold) return equal newState and equal alertType
C27_Deterministic ==
  \A i \in 1..Len(tTrace), j \in 1..Len(tTrace) :
    (tTrace[i].prior = tTrace[j].prior /\ tTrace[i].result = tTrace[j].result) =>
       /\ tTrace[i].newState = tTrace[j].newState
       /\ tTrace[i].alertType = tTrace[j].alertType

\* ---------------------------------------------------------------------
\* Spec: the state saved by one tick and loaded by the next
\* ---------------------------------------------------------------------

\* same check ids, same six fields per check, same lastRun
SameState(x, y) ==
  /\ \A id \in Targets : (x.checks[id] = Null) <=> (y.checks[id] = Null)
  /\ \A id \in Targets :
       x.checks[id] # Null =>
         \A k \in StateFields : x.checks[id][1][k] = y.checks[id][1][k]
  /\ x.lastRun = y.lastRun

\* a tick has just loaded the state an earlier tick saved
JustLoaded == oPc = "target" /\ oIdx = 1 /\ stored # Null

\* C28: saveState followed by loadState is a round trip: the state a tick
\* loads has the check ids, the six fields of each check and the lastRun of
\* the state the previous tick saved
C28_SaveLoadRoundTrip ==
  /\ stored # Null => SameState(loadState(stored), stored[1])
  /\ JustLoaded => SameState(oState, stored[1])

\* the second tick has loaded a saved state in which a has failed and
\* carries an error text and b has never been probed
C28_Witness ==
  /\ JustLoaded
  /\ oState.checks["a"] # Null
  /\ oState.checks["a"][1].lastError # Null
  /\ oState.checks["a"][1].lastCheck = Some(1)
  /\ oState.checks["b"] = Null
  /\ oState.lastRun = Some(1)
  /\ oState # stored[1]

\* ---------------------------------------------------------------------
\* SpecP: one PUT /api/config request against the checks table
\* ---------------------------------------------------------------------

CheckIds == {"a", "b", "c"}

\* a row of the checks table (the columns this model follows)
Row(id, name, failure_threshold) ==
  [id |-> id, name |-> name, failure_threshold |-> failure_threshold]

\* tables before the request: rows of distinct ids, in created_at order
RECURSIVE RowsOf(_, _)
RowsOf(ids, order) ==
  IF order = <<>> THEN <<>>
  ELSE (IF Head(order) \in ids THEN <<Row(Head(order), "old", 3)>> ELSE <<>>)
         \o RowsOf(ids, Tail(order))
Tables == {RowsOf(ids, <<"a", "b", "c">>) : ids \in SUBSET CheckIds}

\* an element of the checks array: id and name, failure_threshold optional
Entries ==
  [id : CheckIds, name : {"new"}, failure_threshold : {Null, Some(1)}]

\* body.checks: missing, null, a falsy value, a truthy value that is not an
\* array, or an array of at most MaxEntries elements
Bodies29 ==
  {[kind |-> k, items |-> <<>>] : k \in {"missing", "null", "falsy", "truthy"}}
  \cup {[kind |-> "array", items |-> q] :
          q \in UNION {[1..n -> Entries] : n \in 0..MaxEntries}}

\* the ids of the rows stored
StoredIds(table) == {table[k].id : k \in 1..Len(table)}

\* deleteCheck for every existing row whose id is not in incomingIds
keepRow(row, incomingIds) == row.id \in incomingIds

RECURSIVE deleteMissing(_, _)
deleteMissing(table, incomingIds) ==
  IF table = <<>> THEN <<>>
  ELSE (IF keepRow(Head(table), incomingIds) THEN <<Head(table)>> ELSE <<>>)
         \o deleteMissing(Tail(table), incomingIds)

\* updateCheck(db, id, ch): the columns whose key is in ch are overwritten
updateCheck(table, ch) ==
  [k \in 1..Len(table) |->
     IF table[k].id = ch.id
     THEN [table[k] EXCEPT !.name = ch.name,
                           !.failure_threshold =
                              Coalesce(ch.failure_threshold, @)]
     ELSE table[k]]

\* createCheck(db, ch): INSERT with failure_threshold ?? 2
createCheck(table, ch) ==
  Append(table, Row(ch.id, ch.name, Coalesce(ch.failure_threshold, 2)))

InitP ==
  /\ TranIdle /\ RunnerIdle /\ OrchestratorIdle /\ fOnAlert = TRUE
  /\ AIdle /\ BIdle /\ LIdle /\ SIdle
  /\ pTable \in {Some(t) : t \in Tables}
  /\ pBefore = pTable
  /\ pRequest \in {Some([body |-> b, pc |-> "received", idx |-> 1]) : b \in Bodies29}
  /\ pResponse = Null

Body29 == pRequest[1].body
\* existing = loadAllChecks(db), read when the handler starts
ExistingIds == StoredIds(pBefore[1])
IncomingIds == {Body29.items[k].id : k \in 1..Len(Body29.items)}

\* if (!body.checks) return 400
PutRejects ==
  /\ pRequest[1].pc = "received"
  /\ Body29.kind \in {"missing", "null", "falsy"}
  /\ pResponse' = Some([status |-> 400, ok |-> FALSE])
  /\ pRequest' = Some([pRequest[1] EXCEPT !.pc = "returned"])
  /\ UNCHANGED <<pTable, pBefore>>

\* body.checks.map is not a function: the TypeError is caught, 500
PutNotArray ==
  /\ pRequest[1].pc = "received"
  /\ Body29.kind = "truthy"
  /\ pResponse' = Some([status |-> 500, ok |-> FALSE])
  /\ pRequest' = Some([pRequest[1] EXCEPT !.pc = "returned"])
  /\ UNCHANGED <<pTable, pBefore>>

\* loadAllChecks, the two id sets, and the delete loop
PutDeletes ==
  /\ pRequest[1].pc = "received"
  /\ Body29.kind = "array"
  /\ pTable' = Some(deleteMissing(pTable[1], IncomingIds))
  /\ pRequest' = Some([pRequest[1] EXCEPT !.pc = "sync"])
  /\ UNCHANGED <<pBefore, pResponse>>

\* one pass of the create-or-update loop; an INSERT for an id that an
\* earlier element of the same array has created either is refused by the
\* table (the error is caught, 500) or adds a second row
PutEntry ==
  /\ pRequest[1].pc = "sync"
  /\ pRequest[1].idx <= Len(Body29.items)
  /\ LET ch == Body29.items[pRequest[1].idx]
     IN IF ch.id \in ExistingIds
        THEN /\ pTable' = Some(updateCheck(pTable[1], ch))
             /\ pRequest' = Some([pRequest[1] EXCEPT !.idx = @ + 1])
             /\ UNCHANGED pResponse
        ELSE \/ /\ pTable' = Some(createCheck(pTable[1], ch))
                /\ pRequest' = Some([pRequest[1] EXCEPT !.idx = @ + 1])
                /\ UNCHANGED pResponse
             \/ /\ ch.id \in StoredIds(pTable[1])
                /\ pResponse' = Some([status |-> 500, ok |-> FALSE])
                /\ pRequest' = Some([pRequest[1] EXCEPT !.pc = "returned"])
                /\ UNCHANGED pTable
  /\ UNCHANGED pBefore

\* return c.json({ ok: true, synced: body.checks.length })
PutReturns ==
  /\ pRequest[1].pc = "sync"
  /\ pRequest[1].idx > Len(Body29.items)
  /\ pResponse' = Some([status |-> 200, ok |-> TRUE])
  /\ pRequest' = Some([pRequest[1] EXCEPT !.pc = "returned"])
  /\ UNCHANGED <<pTable, pBefore>>

NextP ==
  \/ PutRejects
       /\ UNCHANGED <<tvars, rvars, ovars, fvars, cvars, avars, bvars, lvars, svars>>
  \/ PutNotArray
       /\ UNCHANGED <<tvars, rvars, ovars, fvars, cvars, avars, bvars, lvars, svars>>
  \/ PutDeletes
       /\ UNCHANGED <<tvars, rvars, ovars, fvars, cvars, avars, bvars, lvars, svars>>
  \/ PutEntry
       /\ UNCHANGED <<tvars, rvars, ovars, fvars, cvars, avars, bvars, lvars, svars>>
  \/ PutReturns
       /\ UNCHANGED <<tvars, rvars, ovars, fvars, cvars, avars, bvars, lvars, svars>>
SpecP == InitP /\ [][NextP]_vars

Responded == pResponse # Null

\* the part of the claim about a request that returns ok
SyncedWhenOk ==
  (Responded /\ pResponse[1].ok) =>
     /\ Body29.kind = "array"
     /\ StoredIds(pTable[1]) = IncomingIds

\* the part of the claim about a request without a checks array
RejectedWithoutArray ==
  (Responded /\ Body29.kind # "array") =>
     /\ pResponse[1].status = 400
     /\ pTable = pBefore

\* C29: after a request with a checks array returns ok, the ids stored are
\* the ids of the array; a request without a checks array changes nothing
\* and returns 400
C29_DeclarativeSync == SyncedWhenOk /\ RejectedWithoutArray

\* ---------------------------------------------------------------------
\* SpecO: the statements of one tick's loop, one step per side effect
\* ---------------------------------------------------------------------

\* checkState: newState in the payload handed to onAlert, built from the
\* state read before the transition
alertPayloadState_prior(checkState, newState) == checkState

\* checkState: newState in the payload handed to onAlert
alertPayloadState(checkState, newState) == newState

\* a store that replaces the whole map by the one new entry
storeNewState_only(state, id, newState) ==
  [state EXCEPT !.checks = [x \in Targets |-> IF x = id THEN Some(newState) ELSE Null]]

\* state.checks[check.id] = newState
storeNewState(state, id, newState) ==
  [state EXCEPT !.checks[id] = Some(newState)]

\* one side effect of the tick: which target, what, and the Check State
\* written or sent with it
Effect(kind, state) ==
  [idx |-> oIdx, id |-> oChecks[oIdx].id, kind |-> kind, state |-> state]

InitO ==
  /\ TranIdle /\ RunnerIdle /\ OrchestratorIdle
  /\ AIdle /\ BIdle /\ LIdle /\ PIdle /\ SIdle
  /\ fOnAlert \in BOOLEAN

\* runMonitoringChecks is called: loadChecks, loadState, ensureResultsTable
OTickStart ==
  /\ oPc = "idle"
  /\ oClock < MaxTicks
  /\ oClock' = oClock + 1
  /\ oChecks' = loadChecks(dbChecks)
  /\ oState' = loadState(stored)
  /\ oIdx' = 1
  /\ oPc' = "target"
  /\ sLog' = <<>>
  /\ fOps' = [id \in Targets |-> NoOps]
  /\ UNCHANGED <<dbChecks, edited, stored, incidents, oMaint, rvars>>

\* POST /api/checks/:id/toggle between two ticks (toggleCheck)
OToggle ==
  /\ oPc = "idle"
  /\ oClock < MaxTicks
  /\ \E id \in Targets :
       dbChecks' = [dbChecks EXCEPT ![id].enabled = ~@]
  /\ UNCHANGED <<edited, stored, incidents, oPc, oChecks, oIdx, oState, oClock,
                 oMaint, sLog, fOps, rvars>>

\* const maintenance = await isInMaintenance(...); skip_checks: continue
OMaintenance ==
  /\ oPc = "target"
  /\ oIdx <= Len(oChecks)
  /\ \E window \in MaintenanceWindows :
       /\ fOps' = [fOps EXCEPT ![oChecks[oIdx].id].maint = window]
       /\ IF skipsTarget(window)
          THEN oIdx' = oIdx + 1 /\ UNCHANGED <<oPc, oMaint>>
          ELSE oMaint' = window /\ oPc' = "probe" /\ UNCHANGED oIdx
  /\ UNCHANGED <<dbChecks, edited, stored, incidents, oChecks, oState, oClock,
                 sLog, rvars>>

\* const checkState = ...; const result = await runCheck(...)
OProbe ==
  /\ oPc = "probe"
  /\ \E result \in runCheckResults(oChecks[oIdx]) : rResult' = Some(result)
  /\ sLog' = Append(sLog, Effect("probe", Null))
  /\ fOps' = [fOps EXCEPT ![oChecks[oIdx].id].probed = TRUE]
  /\ oPc' = "metrics"
  /\ UNCHANGED <<dbChecks, edited, stored, incidents, oChecks, oIdx, oState,
                 oClock, oMaint, rCheck, rPc, rAttempt, rTimer, rElapsed,
                 rResponse, rRt, rStarted, rLog>>

\* ae.writeDataPoint(...)
OMetrics ==
  /\ oPc = "metrics"
  /\ sLog' = Append(sLog, Effect("metrics", Null))
  /\ fOps' = [fOps EXCEPT ![oChecks[oIdx].id].metric = TRUE]
  /\ oPc' = "row"
  /\ UNCHANGED <<dbChecks, edited, stored, incidents, oChecks, oIdx, oState,
                 oClock, oMaint, rvars>>

\* await insertCheckResult(...).catch(...)
ORow ==
  /\ oPc = "row"
  /\ sLog' = Append(sLog, Effect("row", Null))
  /\ fOps' = [fOps EXCEPT ![oChecks[oIdx].id].row = TRUE]
  /\ oPc' = "transition"
  /\ UNCHANGED <<dbChecks, edited, stored, incidents, oChecks, oIdx, oState,
                 oClock, oMaint, rvars>>

\* const { newState, alertType } = computeTransition(...);
\* state.checks[check.id] = newState
OTransition ==
  /\ oPc = "transition"
  /\ LET check == oChecks[oIdx]
         checkState == Coalesce(oState.checks[check.id], createEmptyCheckState)
         out == computeTransition(checkState, rResult[1], check.failure_threshold,
                                  oClock)
     IN /\ oState' = storeNewState(oState, check.id, out.newState)
        /\ tBase' = checkState
        /\ tState' = out.newState
        /\ fOps' = [fOps EXCEPT ![check.id].computed = Some(out.newState),
                                ![check.id].alertType = out.alertType]
        /\ sLog' = Append(sLog, Effect("transition", Some(out.newState)))
  /\ oPc' = "incident"
  /\ UNCHANGED <<dbChecks, edited, stored, incidents, oChecks, oIdx, oClock,
                 oMaint, rvars>>

\* createIncident / resolveIncidents, by alertType
OIncident ==
  /\ oPc = "incident"
  /\ LET id == oChecks[oIdx].id
         op == incidentOp(fOps[id].alertType)
     IN IF op = "none"
        THEN UNCHANGED <<incidents, sLog, fOps>>
        ELSE /\ incidents' = [incidents EXCEPT ![id] = IF op = "create" THEN @ + 1 ELSE 0]
             /\ sLog' = Append(sLog, Effect("incident", Null))
             /\ fOps' = [fOps EXCEPT ![id].incident = op]
  /\ oPc' = "alert"
  /\ UNCHANGED <<dbChecks, edited, stored, oChecks, oIdx, oState, oClock,
                 oMaint, rvars>>

\* the guarded onAlert call, which returns or throws; then the next target
OAlert ==
  /\ oPc = "alert"
  /\ LET id == oChecks[oIdx].id
     IN IF firesAlert(fOps[id].alertType, fOnAlert, oMaint)
        THEN \E alertOk \in BOOLEAN :
               /\ sLog' = Append(sLog,
                    Effect("alert", Some(alertPayloadState(tBase, tState))))
               /\ fOps' = [fOps EXCEPT ![id].dispatched = TRUE,
                                       ![id].alertThrew = ~alertOk]
        ELSE UNCHANGED <<sLog, fOps>>
  /\ oIdx' = oIdx + 1
  /\ oPc' = "target"
  /\ oMaint' = "none"
  /\ rResult' = Null
  /\ UNCHANGED <<dbChecks, edited, stored, incidents, oChecks, oState, oClock,
                 rCheck, rPc, rAttempt, rTimer, rElapsed, rResponse, rRt,
                 rStarted, rLog>>

\* state.lastRun = now; await saveState(...)
OTickEnd ==
  /\ oPc = "target"
  /\ oIdx > Len(oChecks)
  /\ oState' = stampLastRun(oState, oClock)
  /\ stored' = saveState(stampLastRun(oState, oClock))
  /\ oPc' = "idle"
  /\ UNCHANGED <<dbChecks, edited, incidents, oChecks, oIdx, oClock, oMaint,
                 sLog, fOps, rvars>>

\* SELECT * FROM checks WHERE id = ?: the row, enabled or not, or null
loadCheck(db, id) == IF id \in DOMAIN db THEN Some(db[id]) ELSE Null

\* the ids a run request can name: the checks and one id without a row
RunIds == Targets \cup {"z"}

\* a handler that answers 200 without the result
runResponse_empty(result) == [status |-> 200, body |-> Null]

\* return c.json(result)
runResponse(result) == [status |-> 200, body |-> Some(result)]

\* return c.json({ error: 'Check not found' }, 404)
runNotFound == [status |-> 404, body |-> Null]

\* POST /api/checks/:id/run arrives, at any moment of a tick or between
\* ticks: loadCheck, then 404 or the call of runCheck
ORunBegin ==
  /\ IF pRequest = Null THEN TRUE ELSE pRequest[1].pc = "returned"
  /\ \E id \in RunIds :
       IF loadCheck(dbChecks, id) = Null
       THEN /\ pRequest' = Some([id |-> id, pc |-> "returned"])
            /\ pResponse' = Some(runNotFound)
       ELSE /\ pRequest' = Some([id |-> id, pc |-> "probing"])
            /\ pResponse' = Null
  /\ UNCHANGED <<ovars, sLog, fOps, rvars, pTable, pBefore>>

\* the handler's runCheck call returns: the result is the response
ORunEnd ==
  /\ pRequest # Null
  /\ pRequest[1].pc = "probing"
  /\ \E result \in runCheckResults(loadCheck(dbChecks, pRequest[1].id)[1]) :
       pResponse' = Some(runResponse(result))
  /\ pRequest' = Some([pRequest[1] EXCEPT !.pc = "returned"])
  /\ UNCHANGED <<ovars, sLog, fOps, rvars, pTable, pBefore>>

\* the loop body's locals checkState and newState live in tBase and tState
OLocals == UNCHANGED <<tBase, tState>>
OUnchanged ==
  UNCHANGED <<tThreshold, tTrace, cvars, avars, bvars, lvars, fOnAlert,
              fRead, fOutcome, fCause, fPuts>>
\* a step of the tick answers no request
OTickStep == UNCHANGED pvars

NextO ==
  \/ OTickStart /\ OLocals /\ OUnchanged /\ OTickStep
  \/ OToggle /\ OLocals /\ OUnchanged /\ OTickStep
  \/ OMaintenance /\ OLocals /\ OUnchanged /\ OTickStep
  \/ OProbe /\ OLocals /\ OUnchanged /\ OTickStep
  \/ OMetrics /\ OLocals /\ OUnchanged /\ OTickStep
  \/ ORow /\ OLocals /\ OUnchanged /\ OTickStep
  \/ OTransition /\ OUnchanged /\ OTickStep
  \/ OIncident /\ OLocals /\ OUnchanged /\ OTickStep
  \/ OAlert /\ OLocals /\ OUnchanged /\ OTickStep
  \/ OTickEnd /\ OLocals /\ OUnchanged /\ OTickStep
  \/ ORunBegin /\ OLocals /\ OUnchanged
  \/ ORunEnd /\ OLocals /\ OUnchanged
SpecO == InitO /\ [][NextO]_vars

\* the position of a side effect in the loop body
Rank(kind) ==
  CASE kind = "probe" -> 1 [] kind = "metrics" -> 2 [] kind = "row" -> 3
    [] kind = "transition" -> 4 [] kind = "incident" -> 5 [] OTHER -> 6

\* an earlier effect of the same target with the given kind
Preceded(j, kind) ==
  \E i \in 1..(j - 1) : sLog[i].idx = sLog[j].idx /\ sLog[i].kind = kind

\* C30: a tick handles its targets one after another in list order, each in
\* the order probe, metrics, transition stored in memory, incident write,
\* alert dispatch; the alert of a target precedes the probe of the next; and
\* the alert payload's checkState is the post-transition state stored
C30_SideEffectOrder ==
  /\ \A i \in 1..Len(sLog), j \in 1..Len(sLog) :
       i < j =>
         \/ sLog[i].idx < sLog[j].idx
         \/ sLog[i].idx = sLog[j].idx /\ Rank(sLog[i].kind) < Rank(sLog[j].kind)
  /\ \A j \in 1..Len(sLog) :
       /\ sLog[j].kind = "metrics" => Preceded(j, "probe")
       /\ sLog[j].kind = "transition" => Preceded(j, "metrics")
       /\ sLog[j].kind \in {"incident", "alert"} => Preceded(j, "transition")
       /\ sLog[j].kind = "alert" =>
            /\ oState.checks[sLog[j].id] # Null
            /\ sLog[j].state[1] = oState.checks[sLog[j].id][1]
            /\ \E i \in 1..(j - 1) :
                 /\ sLog[i].idx = sLog[j].idx /\ sLog[i].kind = "transition"
                 /\ sLog[i].state = sLog[j].state

\* the first target's failure alert went out, with an incident before it,
\* and the second target has been probed after it
C30_Witness ==
  \E i \in 1..Len(sLog), j \in 1..Len(sLog), k \in 1..Len(sLog) :
    /\ i < j /\ j < k
    /\ sLog[i].kind = "incident" /\ sLog[i].idx = 1
    /\ sLog[j].kind = "alert" /\ sLog[j].idx = 1
    /\ sLog[j].state[1].status = "unhealthy"
    /\ sLog[k].kind = "probe" /\ sLog[k].idx = 2


\* the targets whose transition the running tick has stored so far
Processed == {sLog[j].id : j \in {i \in 1..Len(sLog) : sLog[i].kind = "transition"}}

\* how often the running tick has replaced the entry of a target
Replacements(id) ==
  Cardinality({j \in 1..Len(sLog) : sLog[j].kind = "transition" /\ sLog[j].id = id})

\* the entry of a target as a tick loads it from the stored document
LoadedEntry(doc, id) == loadState(doc).checks[id]

\* two entries that are both absent or agree on the six fields of a check
SameEntry(x, y) ==
  /\ (x = Null) <=> (y = Null)
  /\ x # Null => \A k \in StateFields : x[1][k] = y[1][k]

\* C31: within one tick the entry of a processed target is replaced exactly
\* once, by the transition computed from its loaded entry or, if it had none,
\* from the zeroed unknown entry; the entry of a target the tick does not
\* process (disabled, or skipped by maintenance) stays as loaded, is written
\* back unchanged by the save, and is never removed
C31_OneReplacementPerTarget ==
  [][/\ oPc' # "idle" =>
          \A id \in Targets :
            /\ Replacements(id)' <= 1
            /\ id \notin Processed' => oState'.checks[id] = LoadedEntry(stored', id)
            /\ id \in Processed' =>
                 \E j \in 1..Len(sLog') :
                   /\ sLog'[j].kind = "transition" /\ sLog'[j].id = id
                   /\ oState'.checks[id] = sLog'[j].state
     /\ oPc = "transition" /\ oPc' = "incident" =>
          /\ tBase' = Coalesce(LoadedEntry(stored, oChecks[oIdx].id),
                               createEmptyCheckState)
          /\ Replacements(oChecks[oIdx].id) = 0
     /\ oPc = "target" /\ oPc' = "idle" =>
          \A id \in Targets :
            /\ id \notin Processed =>
                 SameEntry(LoadedEntry(stored', id), LoadedEntry(stored, id))
            /\ id \in Processed =>
                 SameEntry(LoadedEntry(stored', id), oState.checks[id])
            /\ LoadedEntry(stored, id) # Null => LoadedEntry(stored', id) # Null
    ]_vars

\* the second tick ended with "a" disabled and "b" processed: the entry the
\* first tick wrote for "a" is still stored, next to the new entry of "b"
C31_Witness ==
  /\ oPc = "idle" /\ oClock = 2
  /\ Len(oChecks) = 1 /\ oChecks[1].id = "b"
  /\ Processed = {"b"}
  /\ LoadedEntry(stored, "a") # Null /\ LoadedEntry(stored, "a")[1].lastCheck = Some(1)
  /\ LoadedEntry(stored, "b") # Null /\ LoadedEntry(stored, "b")[1].lastCheck = Some(2)


\* the assertions executeCheck evaluates for a check
EffectiveAssertions(check) ==
  IF Len(check.assertions) > 0 THEN check.assertions ELSE DefaultAssertions

C37_RetriesDoNotCount ==
  /\ AboutToFold =>
       LET before == TickPrior.consecutiveFailures
           after == TickOut.newState.consecutiveFailures
       IN /\ (\A i \in Attempts : ~rLog[i].result.success) => after = before + 1
          /\ ~rLog[Len(rLog)].result.success => after = before + 1
          /\ (\E i \in Attempts : rLog[i].result.success) => after = 0
  /\ \A st \in MonitoringStates, id \in Targets :
       st.checks[id] # Null => st.checks[id][1].consecutiveFailures <= oClock

\* the second tick is about to fold the result of "a" after two failed
\* attempts, as in the first tick: the counter goes from 1 to 2, not to 4
C37_Witness ==
  /\ AboutToFold /\ oClock = 2
  /\ oChecks[oIdx].id = "a" /\ oChecks[oIdx].failure_threshold = 2
  /\ Len(rLog) = 2 /\ \A i \in Attempts : ~rLog[i].result.success
  /\ TickPrior.consecutiveFailures = 1
  /\ TickOut.newState.consecutiveFailures = 2
  /\ TickOut.newState.status = "unhealthy"


(* ------------- SpecE: one outage under threshold edits ---------------- *)
\* a check that has never been probed, with any threshold
InitE ==
  /\ AIdle /\ BIdle /\ LIdle /\ PIdle /\ SIdle
  /\ RunnerIdle
  /\ OrchestratorIdle
  /\ fOnAlert = TRUE
  /\ tBase = createEmptyCheckState
  /\ tThreshold \in 1..MaxThreshold
  /\ tState = tBase
  /\ tTrace = <<>>

\* PUT /api/checks/:id with a new failure_threshold, between two ticks
EditT ==
  /\ Len(tTrace) < MaxCalls
  /\ \E n \in 1..MaxThreshold :
       /\ n # tThreshold
       /\ tThreshold' = n
  /\ UNCHANGED <<tBase, tState, tTrace, rvars, ovars, xvars>>

NextE ==
  \/ Transition
  \/ EditT
SpecE == InitE /\ [][NextE]_vars

\* C35: editing failure_threshold (raising or lowering it, at any moment
\* between ticks) never yields a second failure alert for the same outage:
\* between two transitions that return alertType failure there is one with
\* a successful result
C35_OneFailureAlertPerOutage ==
  \A i \in 1..Len(tTrace), j \in 1..Len(tTrace) :
    (i < j /\ tTrace[i].alertType = "failure" /\ tTrace[j].alertType = "failure") =>
       \E k \in (i + 1)..(j - 1) : tTrace[k].result.success


\* a step of the handler of POST /api/checks/:id/run
RunStep == pRequest' # pRequest

\* C39: POST /api/checks/:id/run probes the check and returns its
\* CheckResult with no other effect: the saved Monitoring State, the state a
\* running tick holds, the incidents and the tick's side effects (onAlert
\* among them) are what they were before the request, during a tick too; the
\* answer is 404 iff the id has no row, and otherwise a result of that check
C39_RunHasNoEffect ==
  [][RunStep =>
       /\ UNCHANGED <<stored, oState, incidents, dbChecks>>
       /\ UNCHANGED <<sLog, fOps, oPc, oIdx, oChecks, oClock, oMaint, rResult>>
       /\ pRequest'[1].pc = "returned" =>
            LET id == pRequest'[1].id
                res == pResponse'[1]
            IN /\ res.status = 404 <=> id \notin Targets
               /\ res.status # 404 =>
                    /\ res.status = 200
                    /\ res.body # Null
                    /\ res.body[1].id = id
                    /\ res.body[1] \in runCheckResults(dbChecks[id])
    ]_vars

\* a run of "b" requested while the tick was handling "b" returned a failed
\* result; the tick, whose own probe succeeded, has stored b as healthy
\* and written no incident
C39_Witness ==
  /\ oPc = "incident" /\ oChecks[oIdx].id = "b"
  /\ pRequest # Null /\ pRequest[1].pc = "returned" /\ pRequest[1].id = "b"
  /\ pResponse[1].status = 200 /\ ~pResponse[1].body[1].success
  /\ rResult[1].success
  /\ oState.checks["b"][1].status = "healthy"
  /\ incidents["b"] = 0


(* ---------- SpecH: ticks with their alerts and incidents logged -------- *)
\* one entry of the log of a run of ticks: the start of a tick (ok: the
\* state is the stored object, not the fallback), a processed target (ok:
\* onAlert returned), or the end of a tick (ok: the state was saved)
HEvent(kind, id, maint, success, alertType, dispatched, incident, ok) ==
  [kind |-> kind, tick |-> oClock, id |-> id, maint |-> maint,
   success |-> success, alertType |-> alertType, dispatched |-> dispatched,
   incident |-> incident, ok |-> ok]

HStart(tick, ok) ==
  [kind |-> "start", tick |-> tick, id |-> "-", maint |-> "none",
   success |-> TRUE, alertType |-> NoAlert, dispatched |-> FALSE,
   incident |-> "none", ok |-> ok]

HEnd(ok) == HEvent("end", "-", "none", TRUE, NoAlert, FALSE, "none", ok)

HFrame ==
  UNCHANGED <<tvars, rvars, cvars, avars, bvars, lvars, pvars, fvars,
              dbChecks, edited, oMaint>>

InitH ==
  /\ TranIdle /\ RunnerIdle /\ OrchestratorIdle
  /\ AIdle /\ BIdle /\ LIdle /\ PIdle /\ SIdle
  /\ fOnAlert = TRUE

\* runMonitoringChecks is called: loadChecks, then loadState, which falls
\* back to the empty state when the read rejects or the text does not parse
HTickStart ==
  /\ oPc = "idle"
  /\ oClock < MaxTicks
  /\ oClock' = oClock + 1
  /\ oChecks' = loadChecks(dbChecks)
  /\ \E read \in BucketReads :
       /\ oState' = loadStateCatch(read).state
       /\ sLog' = Append(sLog, HStart(oClock + 1, read.kind = "object"))
  /\ oIdx' = 1
  /\ oPc' = "target"
  /\ UNCHANGED <<stored, incidents>>
  /\ HFrame

\* one pass of the loop body: the maintenance lookup (whose rejection
\* leaves the tick before the save), `continue` under skip_checks, else
\* runCheck, the transition, the incident write and the guarded onAlert
HTarget ==
  /\ oPc = "target"
  /\ oIdx <= Len(oChecks)
  /\ \E lookup \in MaintenanceLookups, alertOk \in BOOLEAN :
       LET check == oChecks[oIdx]
       IN IF Outcome_isInMaintenance(lookup # "throws") = "throw"
          THEN /\ alertOk
               /\ oPc' = "idle"
               /\ sLog' = Append(sLog, HEnd(FALSE))
               /\ UNCHANGED <<oIdx, oState, incidents>>
          ELSE IF skipsTarget(lookup)
          THEN /\ alertOk
               /\ oIdx' = oIdx + 1
               /\ UNCHANGED <<oPc, oState, incidents, sLog>>
          ELSE \E result \in runCheckResults(check) :
                 LET checkState == Coalesce(oState.checks[check.id],
                                            createEmptyCheckState)
                     out == computeTransition(checkState, result,
                                              check.failure_threshold, oClock)
                     op == incidentOp(out.alertType)
                     fires == firesAlert(out.alertType, fOnAlert, lookup)
                 IN /\ fires \/ alertOk
                    /\ Outcome_onAlert(alertOk) = "continue"
                    /\ oState' = storeNewState(oState, check.id, out.newState)
                    /\ incidents' =
                         IF op = "none" THEN incidents
                         ELSE [incidents EXCEPT ![check.id] =
                                 IF op = "create" THEN @ + 1 ELSE 0]
                    /\ sLog' = Append(sLog,
                         HEvent("target", check.id, lookup, result.success,
                                out.alertType, fires, op, alertOk))
                    /\ oIdx' = oIdx + 1
                    /\ UNCHANGED oPc
  /\ UNCHANGED <<stored, oChecks, oClock>>
  /\ HFrame

\* state.lastRun = now; await saveState(...), which is not guarded
HTickEnd ==
  /\ oPc = "target"
  /\ oIdx > Len(oChecks)
  /\ \E putOk \in BOOLEAN :
       /\ stored' = IF putOk THEN saveState(stampLastRun(oState, oClock)) ELSE stored
       /\ sLog' = Append(sLog, HEnd(Outcome_saveState(putOk) = "continue"))
  /\ oState' = stampLastRun(oState, oClock)
  /\ oPc' = "idle"
  /\ UNCHANGED <<incidents, oChecks, oIdx, oClock>>
  /\ HFrame

NextH ==
  \/ HTickStart
  \/ HTarget
  \/ HTickEnd
SpecH == InitH /\ [][NextH]_vars

\* the log entries of the processed targets, and of one target
HTargets == {j \in 1..Len(sLog) : sLog[j].kind = "target"}
HOf(id) == {j \in HTargets : sLog[j].id = id}
\* the alerts handed to onAlert for one target
HAlerts(id) == {j \in HOf(id) : sLog[j].dispatched}
HLast(S) == CHOOSE m \in S : \A x \in S : x <= m
\* tick t ended with its state saved; tick t started from the stored object
HSaved(t) == \E j \in 1..Len(sLog) : sLog[j].kind = "end" /\ sLog[j].tick = t /\ sLog[j].ok
HLoaded(t) == \E j \in 1..Len(sLog) : sLog[j].kind = "start" /\ sLog[j].tick = t /\ sLog[j].ok

\* every tick so far started from the stored object and, if it is over,
\* saved its state: no fallback, no abort, no failed save
HFaultFree ==
  \A t \in 1..oClock :
    /\ HLoaded(t)
    /\ (t < oClock \/ oPc = "idle") => HSaved(t)

\* C33: the alerts passed to onAlert for one target alternate failure,
\* recovery, failure, ..., starting with failure, across ticks in
\* maintenance windows and ticks whose onAlert call rejects (here even with
\* every load and save of the state succeeding)
C33_AlertsAlternate ==
  HFaultFree =>
  \A id \in Targets : \A j \in HAlerts(id) :
    LET earlier == {i \in HAlerts(id) : i < j}
    IN IF earlier = {} THEN sLog[j].alertType = "failure"
       ELSE sLog[HLast(earlier)].alertType # sLog[j].alertType


\* C34: a failure alert withheld by a suppress_alerts window is not lost:
\* when the target reached unhealthy in a tick inside the window, that state
\* was saved and loaded, and the target fails again in the next tick, outside
\* any window, onAlert is handed a failure alert in that tick
C34_WithheldAlertNotLost ==
  \A i \in HTargets, j \in HTargets :
    ( /\ sLog[i].id = sLog[j].id
      /\ sLog[j].tick = sLog[i].tick + 1
      /\ sLog[i].maint = "suppress_alerts"
      /\ sLog[i].alertType = "failure" /\ ~sLog[i].dispatched
      /\ HSaved(sLog[i].tick) /\ HLoaded(sLog[j].tick)
      /\ sLog[j].maint = "none"
      /\ ~sLog[j].success )
    => sLog[j].dispatched /\ sLog[j].alertType = "failure"

\* the status of a target in the stored Monitoring State is unhealthy
PersistedUnhealthy(id) ==
  /\ stored # Null
  /\ LoadedEntry(stored, id) # Null
  /\ LoadedEntry(stored, id)[1].status = "unhealthy"

\* C36: with incident writes succeeding, between ticks each target has at
\* most one open incident, and it has one iff its persisted status is
\* unhealthy; also after ticks whose state load fell back to the empty state
\* (the ticks considered all ran to their save, and the save succeeded)
C36_OneOpenIncident ==
  (oPc = "idle" /\ \A t \in 1..oClock : HSaved(t)) =>
    \A id \in Targets :
      /\ incidents[id] <= 1
      /\ incidents[id] >= 1 <=> PersistedUnhealthy(id)

\* C38: when a tick ends without a successful saveState (the save failed,
\* or the tick was left in mid-loop), the following tick does not hand
\* onAlert the same failure or recovery alert for a target again, and does
\* not open the same incident again
C38_NoRepeatAfterLostSave ==
  \A i \in HTargets, j \in HTargets :
    ( /\ sLog[i].id = sLog[j].id
      /\ sLog[j].tick = sLog[i].tick + 1
      /\ ~HSaved(sLog[i].tick)
      /\ HLoaded(sLog[j].tick) )
    => /\ ~(sLog[i].dispatched /\ sLog[j].dispatched
              /\ sLog[i].alertType = sLog[j].alertType)
       /\ ~(sLog[i].incident = "create" /\ sLog[j].incident = "create")


(* ------------- SpecLive: ticks whose awaited calls all settle ---------- *)
\* the ticks of Spec with the configuration left alone
NextLive ==
  \/ TickStart
  \/ TargetBegin
  \/ RunnerStepInTick
  \/ TargetFinish
  \/ TickEnd

\* every awaited operation settles and its continuation runs: the
\* maintenance lookup, the pending step of a probe (the fetch or the body
\* read completes or fails, the timer fires, the sleep is over), the side
\* effects after a probe, the save. When the next tick is triggered is left
\* to the scheduler.
LiveFairness ==
  /\ WF_vars(TargetBegin)
  /\ WF_vars(RunnerStepInTick)
  /\ WF_vars(TargetFinish)
  /\ WF_vars(TickEnd)

SpecLive == Init /\ [][NextLive]_vars /\ LiveFairness

\* tick t has saved its state
SavedBy(t) == stored # Null /\ stored[1].lastRun = Some(t)

\* C40: every tick terminates: each runCheck call a tick awaits returns,
\* after at most retry_count + 1 attempts, and every tick that has started
\* reaches its saveState, whatever the probes answer
C40_TickTerminates ==
  /\ [](oPc = "running" => rStarted <= rCheck.retry_count + 1)
  /\ (oPc = "running") ~> (oPc = "running" /\ rPc = "returned")
  /\ (oPc # "idle") ~> (oPc = "idle")
  /\ []((oPc = "idle" /\ oClock > 0) => SavedBy(oClock))

\* the second tick has saved its state after "a" failed in both ticks, each
\* time after its retry, and "b" was probed in both
C40_Witness ==
  /\ oPc = "idle" /\ oClock = 2 /\ SavedBy(2)
  /\ stored[1].checks["a"] # Null
  /\ stored[1].checks["a"][1].consecutiveFailures = 2
  /\ stored[1].checks["b"] # Null
  /\ stored[1].checks["b"][1].lastCheck = Some(2)

====
